---- MODULE Spec2Model ----
(***************************************************************************)
(* State-machine model of the socket.io server core: Server, Namespace,    *)
(* Client (src/lib/namespace.ts, src/lib/index.ts) and Socket              *)
(* (src/lib/socket.ts).  Every handler runs to completion on the single    *)
(* event-loop thread, so one action is one handler, with every call it     *)
(* makes.  process.nextTick callbacks are the FIFO queue `ticks`.          *)
(* The in-memory Adapter is the package socket.io-adapter; it is modelled  *)
(* from section 4.1 of the specification.                                  *)
(***************************************************************************)
EXTENDS Integers, Sequences, FiniteSets, TLC

\* ------------------------------------------------------------------ bounds
MaxSockets == 2      \* Socket objects ever constructed
MaxIds == 2          \* ack-expecting emits per namespace
MaxTicks == 1        \* deferred inbound packets waiting in the nextTick queue
MaxFns == 1          \* connect middleware installed per namespace
MaxAdapters == 2     \* adapter instances per namespace (Server.adapter calls + 1)
MaxEvents == 2       \* inbound EVENT packets per socket
MaxBuffer == 2       \* CONNECT packets one connection sends ahead of its default socket
MaxMatchers == 2     \* parent namespaces registered with of(fn)
MaxChecks == 2       \* CONNECTs that consult the parent namespaces
MaxCalls == 2        \* calls of one ack callback by the application
MaxChain == 2        \* connect middleware installed while a chain is running

\* ------------------------------------------------------------------ inputs
ClientIds == {"c1", "c2"}          \* transport connection ids (conn.id)
ServerNames == {"/", "/chat"}      \* namespaces the application creates with of()
BufferNames == {"/chat", "/news"}  \* namespaces asked for ahead of the default one
DynNames == {"/dyn", "/dyn2"}      \* names only a parent namespace can accept
PeerNames == {"/", "/chat", "/nope"} \* names a peer may send CONNECT for
UserRooms == {"r1"}                \* rooms the application joins and targets
SocketEvents == {"x", "error"}     \* first argument of a Socket.emit
NamespaceEvents == {"x", "connect"} \* first argument of a Namespace.emit
SocketFlags == {"broadcast", "volatile"} \* Socket accessors that set a flag
NamespaceFlags == {"volatile"}            \* Namespace accessors that set a flag
Errors == {"", "forbidden"}        \* what a middleware hands to next: null or a message
AckData == {"pong", "late"}        \* payloads of the ACK packets a peer sends
InboundEvents == {"ping"}          \* names of the events a peer sends

\* The error the decoder throws on data it cannot decode, and an error the
\* connection reports.
DecoderError == "decoder error"
TransportError == "transport error"

\* the event names the application tries as reserved ones
ReservedNames == {"error", "connect", "disconnect", "disconnecting",
                  "newListener", "removeListener"}

\* The list without its first name.
eventsWithoutError == {"connect", "disconnect", "disconnecting",
                       "newListener", "removeListener"}

\* socket.ts:16-23, the reserved event names of a Socket
events == {"error", "connect", "disconnect", "disconnecting",
           "newListener", "removeListener"}
\* namespace.ts:16-20, the reserved event names of a Namespace
nspEvents == {"connect", "connection", "newListener"}

VARIABLES
  sockets,   \* Seq of Socket objects, in construction order (index = identity)
  nsps,      \* Server.nsps: name -> Namespace record
  adapters,  \* name -> Seq of Adapter instances ever created for that name
  clients,   \* conn id -> Client record together with its Connection
  ticks,     \* the process.nextTick queue
  wire,      \* frames written to Connections (conn.write) by the last step
  last,      \* the emit call made by the last step, if any
  issued,    \* name -> Seq of packet ids handed out by that namespace
  closed,    \* Server.close has run (engine and http server closed)
  server     \* the Server's parent namespaces and its namespace checks

vars == <<sockets, nsps, adapters, clients, ticks, wire, last, issued, closed,
          server>>

\* ------------------------------------------------------------------ maps
EmptyMap == [k \in {} |-> 0]
MapPut(m, k, v) == [x \in (DOMAIN m) \cup {k} |-> IF x = k THEN v ELSE m[x]]
MapDel(m, k) == [x \in (DOMAIN m) \ {k} |-> m[x]]
MapGet(m, k, d) == IF k \in DOMAIN m THEN m[k] ELSE d

Min(S) == CHOOSE x \in S : \A y \in S : x <= y

NoEmit == [op |-> "none"]

\* The err of next(): null, or an Error with a message.
NoError == ""

\* ------------------------------------------------------------------ Adapter
\* An Adapter instance: rooms: Room -> set of sids, sids: sid -> set of Rooms.
NewAdapter == [rooms |-> EmptyMap, sids |-> EmptyMap]

\* addAll(sid, rooms): add sid to every room; create rooms on demand.
AdapterAddAll(a, sid, rs) ==
  [rooms |-> [r \in (DOMAIN a.rooms) \cup rs |->
                IF r \in rs THEN MapGet(a.rooms, r, {}) \cup {sid} ELSE a.rooms[r]],
   sids |-> MapPut(a.sids, sid, MapGet(a.sids, sid, {}) \cup rs)]

\* del(sid, room): remove sid from room; delete room when empty.
AdapterDel(a, sid, r) ==
  [rooms |-> IF r \in DOMAIN a.rooms
             THEN IF a.rooms[r] \ {sid} = {} THEN MapDel(a.rooms, r)
                  ELSE MapPut(a.rooms, r, a.rooms[r] \ {sid})
             ELSE a.rooms,
   sids |-> IF sid \in DOMAIN a.sids
            THEN MapPut(a.sids, sid, a.sids[sid] \ {r})
            ELSE a.sids]

\* delAll(sid): remove sid from every room it belongs to.
AdapterDelAll(a, sid) ==
  [rooms |-> LET keep == {r \in DOMAIN a.rooms : a.rooms[r] \ {sid} # {}}
             IN [r \in keep |-> a.rooms[r] \ {sid}],
   sids |-> MapDel(a.sids, sid)]

\* socketRooms(sid): the set of rooms containing sid, or empty.
AdapterSocketRooms(a, sid) == MapGet(a.sids, sid, {})

\* The sids a broadcast targets: every known sid when no room is given, else
\* the union of the rooms (a set, so each sid once), minus `except`.
AdapterTargets(a, rs, except) ==
  (IF rs = {} THEN DOMAIN a.sids
   ELSE UNION {MapGet(a.rooms, r, {}) : r \in rs}) \ except

\* ------------------------------------------------------------------ state
\* The whole program state as one record, so that a handler is a function
\* from state to state and nested calls compose.
Cur == [sockets |-> sockets, nsps |-> nsps, adapters |-> adapters,
        clients |-> clients, ticks |-> ticks, wire |-> wire, last |-> last,
        issued |-> issued, closed |-> closed, server |-> server]

\* A handler starts with nothing written and no emit made.
Quiet == wire = <<>> /\ last = NoEmit

Commit(st) ==
  /\ sockets' = st.sockets
  /\ nsps' = st.nsps
  /\ adapters' = st.adapters
  /\ clients' = st.clients
  /\ ticks' = st.ticks
  /\ wire' = st.wire
  /\ last' = st.last
  /\ issued' = st.issued
  /\ closed' = st.closed
  /\ server' = st.server

\* Socket.id as the constructor computes it (socket.ts:100).
SocketIdOf(name, cid) == IF name # "/" THEN name \o "#" \o cid ELSE cid

\* A packet record; id = -1 when the packet carries no id.
Packet(type, name, id, ev) == [type |-> type, nsp |-> name, id |-> id, ev |-> ev]

NoOpts == [preEncoded |-> FALSE, volatile |-> FALSE]

\* The query argument of Client.connect, doConnect and Namespace.add is
\* either an object, given by the set of its keys, or a number.
QueryObject(keys) == <<"object", keys>>
QueryNumber(k) == <<"number", k>>

\* connect(name) without a second argument: query = {}.
NoQuery == QueryObject({})

\* url.parse(packet.nsp, true).query of a CONNECT packet, whose `data` is
\* the key of its query string, or "" when there is none.
PacketQuery(data) == QueryObject(IF data = "" THEN {} ELSE {data})

\* url.parse(request.url, true).query of the transport's request.
RequestQuery == {"transport"}

\* buildQuery of Socket.buildHandshake: Object.assign({}, query,
\* requestQuery) copies the own enumerable keys of an object and nothing of
\* a number.
BuildQuery(query) ==
  (IF query[1] = "object" THEN query[2] ELSE {}) \cup RequestQuery

\* The adapter instance Socket i holds (this.adapter, captured at construction).
AdapterOf(st, i) == st.adapters[st.sockets[i].nsp][st.sockets[i].adapter]

\* Socket.rooms (socket.ts:601): the rooms the socket's adapter has it in.
SocketRooms(st, i) == AdapterSocketRooms(AdapterOf(st, i), st.sockets[i].id)

SetAdapterOf(st, i, a) ==
  [st EXCEPT !.adapters[st.sockets[i].nsp][st.sockets[i].adapter] = a]

\* ------------------------------------------------------------------ Client
\* The volatile option is not looked at.
ClientPacketIgnoresVolatile(st, c, pkt, opts) ==
  IF st.clients[c].readyState = "open"
  THEN [st EXCEPT !.wire = Append(@, [to |-> c, type |-> pkt.type,
                                     nsp |-> pkt.nsp, id |-> pkt.id,
                                     ev |-> pkt.ev])]
  ELSE st

\* Client.packet: write only while the connection is open; a volatile packet
\* is dropped when the transport is not writable.
ClientPacket(st, c, pkt, opts) ==
  IF st.clients[c].readyState = "open"
  THEN IF opts.volatile /\ ~st.clients[c].writable
       THEN st
       ELSE [st EXCEPT !.wire = Append(@, [to |-> c, type |-> pkt.type,
                                          nsp |-> pkt.nsp, id |-> pkt.id,
                                          ev |-> pkt.ev])]
  ELSE st

\* The socket is dropped from `sockets` and stays in `nsps`.
ClientRemoveSocketsOnly(st, i) ==
  LET c == st.sockets[i].client
      sid == st.sockets[i].id
  IN IF sid \in DOMAIN st.clients[c].sockets
     THEN [st EXCEPT !.clients[c].sockets = MapDel(@, sid)]
     ELSE st

\* Client.remove: unregister the socket filed under socket.id from both maps.
ClientRemove(st, i) ==
  LET c == st.sockets[i].client
      sid == st.sockets[i].id
  IN IF sid \in DOMAIN st.clients[c].sockets
     THEN LET name == st.sockets[st.clients[c].sockets[sid]].nsp
          IN [st EXCEPT !.clients[c].sockets = MapDel(@, sid),
                        !.clients[c].nsps = MapDel(@, name)]
     ELSE st

\* ------------------------------------------------------------------ Socket
\* Socket.packet: stamp the namespace name and hand over to the Client.
SocketPacket(st, i, pkt, opts) ==
  ClientPacket(st, st.sockets[i].client,
               [pkt EXCEPT !.nsp = st.sockets[i].nsp], opts)

\* Socket.join: Adapter.addAll on the socket's adapter.
SocketJoin(st, i, rs) ==
  SetAdapterOf(st, i, AdapterAddAll(AdapterOf(st, i), st.sockets[i].id, rs))

\* Socket.leave: Adapter.del on the socket's adapter.
SocketLeave(st, i, r) ==
  SetAdapterOf(st, i, AdapterDel(AdapterOf(st, i), st.sockets[i].id, r))

\* Socket.leaveAll: Adapter.delAll on the socket's adapter.
SocketLeaveAll(st, i) ==
  SetAdapterOf(st, i, AdapterDelAll(AdapterOf(st, i), st.sockets[i].id))

\* Namespace.remove: drop the entry filed under socket.id, if any.
NamespaceRemove(st, i) ==
  LET n == st.sockets[i].nsp
      sid == st.sockets[i].id
  IN IF sid \in DOMAIN st.nsps[n].sockets
     THEN [st EXCEPT !.nsps[n].sockets = MapDel(@, sid)]
     ELSE st

\* What the listeners of `disconnect` can observe of the socket when the
\* event fires: no room, and no entry under its id in the four maps.
Gone(st, i) ==
  LET s == st.sockets[i]
  IN /\ SocketRooms(st, i) = {}
     /\ s.id \notin DOMAIN st.nsps[s.nsp].sockets
     /\ s.id \notin DOMAIN st.nsps[s.nsp].connected
     /\ s.id \notin DOMAIN st.clients[s.client].sockets
     /\ s.nsp \notin DOMAIN st.clients[s.client].nsps

\* The close sequence of a socket, whether it is still connected or not.
CloseSequence(st, i, reason) ==
  LET st1 == [st EXCEPT !.sockets[i].emitted = Append(@, "disconnecting"),
                        !.sockets[i].seenRooms = SocketRooms(st, i)]
      st2 == SocketLeaveAll(st1, i)
      st3 == NamespaceRemove(st2, i)
      st4 == ClientRemove(st3, i)
      st5 == [st4 EXCEPT !.sockets[i].connected = FALSE,
                         !.sockets[i].disconnected = TRUE]
      st6 == [st5 EXCEPT !.nsps[st.sockets[i].nsp].connected =
                            MapDel(@, st.sockets[i].id)]
  IN [st6 EXCEPT !.sockets[i].emitted = Append(@, "disconnect"),
                 !.sockets[i].reason = IF st.sockets[i].listener THEN reason ELSE @,
                 !.sockets[i].seenClosed = IF st.sockets[i].listener THEN st.closed ELSE @,
                 !.sockets[i].seenGone = Gone(st6, i)]

\* The close sequence without the test of `connected`.
SocketOncloseUnguarded(st, i, reason) == CloseSequence(st, i, reason)

\* The close sequence that clears `connected` and leaves `disconnected`.
SocketOncloseHalfFlag(st, i, reason) ==
  IF ~st.sockets[i].connected THEN st
  ELSE [CloseSequence(st, i, reason) EXCEPT !.sockets[i].disconnected = FALSE]

\* socket.on("disconnect", fn) with a listener that keeps what it is called
\* with: `reason` is the reason handed to it, `seenClosed` whether the engine
\* had been closed by then.
SocketOnDisconnect(st, i) == [st EXCEPT !.sockets[i].listener = TRUE]

\* Socket.onclose.  The local events are recorded in the socket's `emitted`
\* log; `seenRooms` is Socket.rooms as a `disconnecting` listener reads it,
\* `seenGone` is Gone as a `disconnect` listener reads it.
SocketOnclose(st, i, reason) ==
  IF ~st.sockets[i].connected THEN st
  ELSE CloseSequence(st, i, reason)

RECURSIVE OncloseAll(_, _, _)
\* for (const socket of <map>.values()) socket.onclose(reason)
OncloseAll(st, idxs, reason) ==
  IF idxs = {} THEN st
  ELSE LET i == Min(idxs)
       IN OncloseAll(SocketOnclose(st, i, reason), idxs \ {i}, reason)

\* The sockets are closed and the listeners stay on the connection.
ClientOncloseKeepsListeners(st, c, reason) ==
  LET idxs == {st.clients[c].sockets[k] : k \in DOMAIN st.clients[c].sockets}
      st2 == OncloseAll(st, idxs, reason)
  IN [st2 EXCEPT !.clients[c].sockets = EmptyMap]

\* Client.onclose running the close sequence of every socket ever created
\* for the connection, whatever its `connected` says.
ClientOncloseEverySocket(st, c, reason) ==
  LET st1 == [st EXCEPT !.clients[c].attached = FALSE]
      all == {i \in DOMAIN st1.sockets : st1.sockets[i].client = c}
      CloseAll[idxs \in SUBSET all] ==
        IF idxs = {} THEN st1
        ELSE LET i == CHOOSE x \in idxs : \A y \in idxs : x >= y
             IN CloseSequence(CloseAll[idxs \ {i}], i, reason)
  IN [CloseAll[all] EXCEPT !.clients[c].sockets = EmptyMap]

\* Client.onclose: detach from the transport and the decoder, close every
\* registered socket, clear `sockets`.
ClientOnclose(st, c, reason) ==
  LET st1 == [st EXCEPT !.clients[c].attached = FALSE]
      idxs == {st1.clients[c].sockets[k] : k \in DOMAIN st1.clients[c].sockets}
      st2 == OncloseAll(st1, idxs, reason)
  IN [st2 EXCEPT !.clients[c].sockets = EmptyMap]

\* Client.close: conn.close() and the direct onclose, only while open.
ClientClose(st, c) ==
  IF st.clients[c].readyState = "open"
  THEN ClientOnclose([st EXCEPT !.clients[c].readyState = "closing"], c,
                     "forced server close")
  ELSE st

\* Socket.onerror(err): the error goes to the `error` listeners, or to the
\* console; `errors` is the log of the errors the socket was called with.
SocketOnerror(st, i, err) ==
  [st EXCEPT !.sockets[i].emitted = Append(@, "error"),
             !.sockets[i].errors = Append(@, err)]

RECURSIVE OnerrorAll(_, _, _)
\* for (const socket of this.sockets.values()) socket.onerror(err)
OnerrorAll(st, idxs, err) ==
  IF idxs = {} THEN st
  ELSE LET i == Min(idxs)
       IN OnerrorAll(SocketOnerror(st, i, err), idxs \ {i}, err)

\* The sockets are told and the connection stays as it is.
ClientOnerrorKeepsOpen(st, c, err) ==
  OnerrorAll(st, {st.clients[c].sockets[k] : k \in DOMAIN st.clients[c].sockets}, err)

\* Client.onerror(err): onerror on every registered socket, then
\* conn.close(), which starts the closing of an open connection; the close
\* event follows.
ClientOnerror(st, c, err) ==
  LET idxs == {st.clients[c].sockets[k] : k \in DOMAIN st.clients[c].sockets}
      st1 == OnerrorAll(st, idxs, err)
  IN IF st1.clients[c].readyState = "open"
     THEN [st1 EXCEPT !.clients[c].readyState = "closing"]
     ELSE st1

\* Socket.disconnect(false): a DISCONNECT packet, then the local close.
SocketDisconnectLocal(st, i) ==
  IF ~st.sockets[i].connected THEN st
  ELSE SocketOnclose(SocketPacket(st, i, Packet("DISCONNECT", "", -1, ""), NoOpts), i,
                     "server namespace disconnect")

RECURSIVE DisconnectAll(_, _)
\* for (const socket of this.sockets.values()) socket.disconnect()
DisconnectAll(st, idxs) ==
  IF idxs = {} THEN st
  ELSE LET i == Min(idxs)
       IN DisconnectAll(SocketDisconnectLocal(st, i), idxs \ {i})

\* Client.disconnect: disconnect every socket, clear `sockets`, close.
ClientDisconnect(st, c) ==
  LET idxs == {st.clients[c].sockets[k] : k \in DOMAIN st.clients[c].sockets}
      st1 == DisconnectAll(st, idxs)
  IN ClientClose([st1 EXCEPT !.clients[c].sockets = EmptyMap], c)

\* Socket.disconnect(close).
SocketDisconnect(st, i, close) ==
  IF ~st.sockets[i].connected THEN st
  ELSE IF close THEN ClientDisconnect(st, st.sockets[i].client)
       ELSE SocketDisconnectLocal(st, i)

\* Socket.onconnect: register in nsp.connected, join the room named by the own
\* id, and write CONNECT unless it went out with the transport handshake.
SocketOnconnect(st, i) ==
  LET n == st.sockets[i].nsp
      st1 == [st EXCEPT !.nsps[n].connected = MapPut(@, st.sockets[i].id, i)]
      st2 == SocketJoin(st1, i, {st.sockets[i].id})
      skip == n = "/" /\ st2.nsps[n].fns = 0
  IN IF skip THEN st2
     ELSE SocketPacket(st2, i, Packet("CONNECT", "", -1, ""), NoOpts)

\* The callback is called and stays stored.
SocketOnackKeepsEntry(st, i, id, data) ==
  IF id \in st.sockets[i].acks
  THEN [st EXCEPT !.sockets[i].called = Append(@, [id |-> id, data |-> data])]
  ELSE st

\* Socket.onack: call the callback stored under the packet id with the
\* packet data, and forget it.  `called` is the log of the calls made.
SocketOnack(st, i, id, data) ==
  IF id \in st.sockets[i].acks
  THEN [st EXCEPT !.sockets[i].acks = @ \ {id},
                  !.sockets[i].called = Append(@, [id |-> id, data |-> data])]
  ELSE st

\* Socket.error: an ERROR packet carrying the message.
SocketError(st, i, msg) ==
  SocketPacket(st, i, Packet("ERROR", "", -1, msg), NoOpts)

\* The callback writes its packet on every call.
SocketAckEveryCall(st, i, k) ==
  LET cb == st.sockets[i].cbs[k]
      st1 == SocketPacket(st, i, Packet("ACK", "", cb.id, ""), NoOpts)
  IN [st1 EXCEPT !.sockets[i].cbs[k].sent = TRUE,
                 !.sockets[i].cbs[k].written = @ + Len(st1.wire) - Len(st.wire)]

\* A call of the k-th callback Socket.ack has produced for socket i: an ACK
\* packet with the event's id on the first call, nothing afterwards.
\* `written` counts the packets the callback got written to the transport.
SocketAck(st, i, k) ==
  LET cb == st.sockets[i].cbs[k]
  IN IF cb.sent THEN st
     ELSE LET st1 == SocketPacket(st, i, Packet("ACK", "", cb.id, ""), NoOpts)
          IN [st1 EXCEPT !.sockets[i].cbs[k].sent = TRUE,
                         !.sockets[i].cbs[k].written =
                            @ + Len(st1.wire) - Len(st.wire)]

\* fn of Socket.dispatch is called: the rest is deferred one tick.
SocketRunDone(st, i, ev, cb, err) ==
  [st EXCEPT !.ticks = Append(@, [kind |-> "dispatch", s |-> i, err |-> err,
                                  type |-> "", id |-> cb, data |-> ev])]

\* Socket.dispatch with Socket.run: with no middleware fn(null) is called at
\* once; else the event waits for the middleware chain, a snapshot of fns.
SocketDispatch(st, i, ev, cb) ==
  IF st.sockets[i].fns = 0
  THEN SocketRunDone(st, i, ev, cb, NoError)
  ELSE [st EXCEPT !.sockets[i].pending =
                     Append(@, [ev |-> ev, cb |-> cb, mw |-> st.sockets[i].fns])]

\* An event middleware of socket i calls next(err) for its k-th waiting
\* event: on an error, or after the last middleware, fn is called.
SocketRunNext(st, i, k, err) ==
  LET e == st.sockets[i].pending[k]
      rest == [j \in 1 .. Len(st.sockets[i].pending) - 1 |->
                 IF j < k THEN st.sockets[i].pending[j]
                 ELSE st.sockets[i].pending[j + 1]]
  IN IF err # NoError \/ e.mw = 1
     THEN SocketRunDone([st EXCEPT !.sockets[i].pending = rest], i, e.ev, e.cb, err)
     ELSE [st EXCEPT !.sockets[i].pending[k].mw = @ - 1]

\* The error of the middleware is dropped and the event delivered.
SocketDispatchIgnoresError(st, i, ev, cb, err) ==
  [st EXCEPT !.sockets[i].received = Append(@, [ev |-> ev, cb |-> cb])]

\* The nextTick callback of Socket.dispatch: an ERROR packet on a middleware
\* error, else the event goes to the listeners (the log `received`).
SocketDispatchContinue(st, i, ev, cb, err) ==
  IF err # NoError
  THEN SocketError(st, i, err)
  ELSE [st EXCEPT !.sockets[i].received = Append(@, [ev |-> ev, cb |-> cb])]

\* Socket.onevent: an event with an id gets a new ack callback appended to
\* its arguments (cb is its place in `cbs`, 0 for none), then dispatch.
SocketOnevent(st, i, id, data) ==
  LET st1 == [st EXCEPT !.sockets[i].seen = @ + 1]
      st2 == IF id # -1
             THEN [st1 EXCEPT !.sockets[i].cbs =
                      Append(@, [id |-> id, sent |-> FALSE, written |-> 0,
                                 calls |-> 0])]
             ELSE st1
      cb == IF id # -1 THEN Len(st2.sockets[i].cbs) ELSE 0
  IN SocketDispatch(st2, i, data, cb)

\* Socket.use: one more event middleware.
SocketUse(st, i) == [st EXCEPT !.sockets[i].fns = @ + 1]

\* Socket.onpacket for the packet types a peer sends after CONNECT.
SocketOnpacket(st, i, type, id, data) ==
  CASE type = "DISCONNECT" -> SocketOnclose(st, i, "client namespace disconnect")
    [] type = "ACK" -> SocketOnack(st, i, id, data)
    [] type = "EVENT" -> SocketOnevent(st, i, id, data)
    [] OTHER -> st

\* Socket.to / Socket.in, once per room of rs.
SocketTo(st, i, rs) == [st EXCEPT !.sockets[i].rooms = @ \cup rs]

\* The accessors Socket.broadcast and Socket.volatile, once per flag of fs.
SocketFlag(st, i, fs) == [st EXCEPT !.sockets[i].flags = @ \cup fs]

\* The Set a Namespace's `rooms` field refers to: its own, or the Set of the
\* parent namespace that assigned its own Set to the field (`shared` is that
\* parent's place in parentNsps, 0 for none).
NamespaceRooms(st, n) ==
  IF st.nsps[n].shared = 0 THEN st.nsps[n].rooms
  ELSE st.server.parentNsps[st.nsps[n].shared].rooms

\* A mutation (add, clear) of the Set a Namespace's `rooms` field refers to.
NamespaceSetRooms(st, n, rs) ==
  IF st.nsps[n].shared = 0 THEN [st EXCEPT !.nsps[n].rooms = rs]
  ELSE [st EXCEPT !.server.parentNsps[st.nsps[n].shared].rooms = rs]

\* Namespace.to / Namespace.in, once per room of rs.
NamespaceTo(st, n, rs) == NamespaceSetRooms(st, n, NamespaceRooms(st, n) \cup rs)

\* The accessor Namespace.volatile, once per flag of fs.
NamespaceFlag(st, n, fs) == [st EXCEPT !.nsps[n].flags = @ \cup fs]

\* Namespace.use: one more connect middleware; on the default namespace of
\* a server that has its engine, the initial packet is deleted.
NamespaceUse(st, n) ==
  [st EXCEPT !.nsps[n].fns = @ + 1,
             !.server.initialPacket =
                IF st.server.attached /\ n = "/" THEN FALSE ELSE @]

\* ------------------------------------------------------------------ broadcast
RECURSIVE WriteAll(_, _, _, _)
\* The encoded packet written to each targeted socket's Client.
WriteAll(st, idxs, pkt, opts) ==
  IF idxs = {} THEN st
  ELSE LET i == Min(idxs)
       IN WriteAll(SocketPacket(st, i, pkt, opts), idxs \ {i}, pkt, opts)

\* Adapter.broadcast of adapter instance g of namespace n: the targets that
\* are sockets of the namespace get the packet; a sid without a socket is a
\* silent no-op.
AdapterBroadcast(st, n, g, pkt, rs, except, flags) ==
  LET targets == AdapterTargets(st.adapters[n][g], rs, except)
      idxs == {st.nsps[n].connected[sid] :
                 sid \in targets \cap DOMAIN st.nsps[n].connected}
  IN WriteAll(st, idxs, [pkt EXCEPT !.nsp = n],
              [preEncoded |-> TRUE, volatile |-> "volatile" \in flags])

\* What an emit call did, for the step that made it.
EmitRecord(op, i, n, ev, cb, rs, flags, outcome) ==
  [op |-> op, s |-> i, nsp |-> n, ev |-> ev, cb |-> cb, rooms |-> rs,
   flags |-> flags, outcome |-> outcome]

\* A callback is refused only when rooms are staged.
RefusesCallbackRoomsOnly(s, cb) == cb /\ s.rooms # {}

\* The test that makes Socket.emit throw: a callback while rooms or the
\* broadcast flag are staged.
RefusesCallback(s, cb) == cb /\ (s.rooms # {} \/ "broadcast" \in s.flags)

\* The counter is read and not advanced.
SameId(ids) == ids

\* this.nsp.ids++: the namespace counter after an id has been taken.
NextId(ids) == ids + 1

\* Nobody is excluded.
ExceptNobody(s) == {}

\* The `except` set Socket.emit hands to Adapter.broadcast.
EmitExcept(s) == {s.id}

\* Socket.emit(ev, ..., [cb]).
SocketEmit(st, i, ev, cb) ==
  LET s == st.sockets[i]
      n == s.nsp
      rec(o) == EmitRecord("Socket.emit", i, n, ev, cb, s.rooms, s.flags, o)
  IN IF ev \in events
     THEN [st EXCEPT !.last = rec("local")]
     ELSE IF RefusesCallback(s, cb)
     THEN [st EXCEPT !.last = rec("throw")]
     ELSE LET id == IF cb THEN st.nsps[n].ids ELSE -1
              st1 == IF cb
                     THEN [st EXCEPT !.sockets[i].acks = @ \cup {id},
                                     !.nsps[n].ids = NextId(@),
                                     !.issued[n] = Append(@, id)]
                     ELSE st
              st2 == [st1 EXCEPT !.sockets[i].rooms = {},
                                 !.sockets[i].flags = {}]
              pkt == Packet("EVENT", n, id, ev)
          IN IF s.rooms # {} \/ "broadcast" \in s.flags
             THEN [AdapterBroadcast(st2, n, s.adapter, pkt, s.rooms, EmitExcept(s),
                                   s.flags)
                     EXCEPT !.last = rec("broadcast")]
             ELSE [SocketPacket(st2, i, pkt,
                                [preEncoded |-> FALSE,
                                 volatile |-> "volatile" \in s.flags])
                     EXCEPT !.last = rec("packet")]

\* The staged rooms are cleared before they are read.
NamespaceEmitIgnoresRooms(st, n, ev, cb) ==
  LET ns == st.nsps[n]
      rooms == NamespaceRooms(st, n)
      rec(o) == EmitRecord("Namespace.emit", 0, n, ev, cb, rooms, ns.flags, o)
  IN IF ev \in nspEvents
     THEN [st EXCEPT !.last = rec("local")]
     ELSE IF cb
     THEN [st EXCEPT !.last = rec("throw")]
     ELSE LET st1 == [NamespaceSetRooms(st, n, {}) EXCEPT !.nsps[n].flags = {}]
          IN [AdapterBroadcast(st1, n, ns.adapter, Packet("EVENT", n, -1, ev),
                               {}, {}, ns.flags)
                EXCEPT !.last = rec("broadcast")]

\* Namespace.emit(ev, ..., [cb]).
NamespaceEmit(st, n, ev, cb) ==
  LET ns == st.nsps[n]
      rooms == NamespaceRooms(st, n)
      rec(o) == EmitRecord("Namespace.emit", 0, n, ev, cb, rooms, ns.flags, o)
  IN IF ev \in nspEvents
     THEN [st EXCEPT !.last = rec("local")]
     ELSE IF cb
     THEN [st EXCEPT !.last = rec("throw")]
     ELSE LET st1 == [NamespaceSetRooms(st, n, {}) EXCEPT !.nsps[n].flags = {}]
          IN [AdapterBroadcast(st1, n, ns.adapter, Packet("EVENT", n, -1, ev),
                               rooms, {}, ns.flags)
                EXCEPT !.last = rec("broadcast")]

\* ------------------------------------------------------------------ connect
\* new Socket(nsp, client, query), as Namespace.add constructs it, and the
\* start of the connect-middleware run: with no middleware the continuation
\* goes to the nextTick queue at once.  `chain` is the length of the copy
\* Namespace.run takes of the namespace's middleware, for as long as the run
\* holds it, and `mw` what is left of it; `late` counts the middleware seen
\* to be installed while the chain was running.
NamespaceAdd(st, n, c, query) ==
  LET i == Len(st.sockets) + 1
      chain == st.nsps[n].fns
      s == [nsp |-> n, client |-> c, id |-> SocketIdOf(n, c),
            connected |-> TRUE, disconnected |-> FALSE,
            adapter |-> st.nsps[n].adapter, query |-> BuildQuery(query),
            rooms |-> {}, flags |-> {}, acks |-> {},
            phase |-> IF chain = 0 THEN "tick" ELSE "mw", mw |-> chain,
            chain |-> chain, late |-> 0,
            emitted |-> <<>>, seenRooms |-> {}, seenGone |-> FALSE,
            seenClosed |-> FALSE, listener |-> FALSE,
            announced |-> <<>>, seenFiled |-> FALSE,
            called |-> <<>>,
            fns |-> 0, pending |-> <<>>, received |-> <<>>, cbs |-> <<>>,
            seen |-> 0, rejection |-> NoError, errors |-> <<>>, reason |-> ""]
      st1 == [st EXCEPT !.sockets = Append(@, s)]
  IN IF chain = 0
     THEN [st1 EXCEPT !.ticks = Append(@, [kind |-> "add", s |-> i,
                                          err |-> NoError, type |-> "",
                                          id |-> -1, data |-> ""])]
     ELSE st1

\* Every CONNECT goes to Namespace.add at once.
ClientDoConnectUnbuffered(st, c, name, query) ==
  NamespaceAdd(st, name, c, query)

\* Client.doConnect: a non-default name waits in connectBuffer until the
\* client has its default-namespace socket.
ClientDoConnect(st, c, name, query) ==
  IF name # "/" /\ "/" \notin DOMAIN st.clients[c].nsps
  THEN [st EXCEPT !.clients[c].connectBuffer = Append(@, name)]
  ELSE NamespaceAdd(st, name, c, query)

\* new Namespace(server, name) with the adapter initAdapter creates.
NewNamespace == [connected |-> EmptyMap, sockets |-> EmptyMap, fns |-> 0,
                 rooms |-> {}, shared |-> 0, flags |-> {}, ids |-> 0,
                 adapter |-> 1]

\* new Server(srv): no parent namespace, no namespace check started; the
\* constructor has attached the engine, with the initial packet since the
\* default namespace has no middleware yet.  `piggy` is the set of
\* connections whose handshake carried the initial packet.
NewServer == [parentNsps |-> <<>>, checks |-> <<>>, created |-> 0,
              attached |-> TRUE, initialPacket |-> TRUE, piggy |-> {},
              cb |-> "none", cbSaw |-> [closed |-> FALSE, sockets |-> {}]]

\* The initial packet is set whatever middleware there is.
ServerAttachAlways(st) ==
  [st EXCEPT !.server.attached = TRUE, !.server.initialPacket = TRUE]

\* Server.attach: the CONNECT packet of "/" becomes the engine's initial
\* packet unless the default namespace has middleware.
ServerAttach(st) ==
  [st EXCEPT !.server.attached = TRUE,
             !.server.initialPacket = (st.nsps["/"].fns = 0)]

\* The handshake of the transport: the initial packet, when the engine has
\* one, goes to the peer with the handshake response.
EngineHandshake(st, c) ==
  IF st.server.initialPacket
  THEN [st EXCEPT !.server.piggy = @ \cup {c}]
  ELSE st

\* new ParentNamespace(server), as Server.of(fn) registers it.
\* `children` is in the order of creation, the order forEach visits.
NewParentNamespace == [fns |-> 0, children |-> <<>>, rooms |-> {}, flags |-> {}]

\* Server.of(fn): the matcher goes to the end of parentNsps.
ServerOfMatcher(st) ==
  [st EXCEPT !.server.parentNsps = Append(@, NewParentNamespace)]

\* ParentNamespace.createChild: a new Namespace with the parent's
\* middleware and an adapter of its own, filed under the name in place of
\* whatever was filed there.  `created` counts the children ever created.
ParentNamespaceCreateChild(st, p, name) ==
  LET old == IF name \in DOMAIN st.adapters THEN st.adapters[name] ELSE <<>>
      child == [NewNamespace EXCEPT !.fns = st.server.parentNsps[p].fns,
                                    !.adapter = Len(old) + 1]
  IN [st EXCEPT !.server.parentNsps[p].children =
                  IF \E x \in DOMAIN @ : @[x] = name THEN @ ELSE Append(@, name),
                !.server.created = @ + 1,
                !.nsps = MapPut(@, name, child),
                !.adapters = MapPut(@, name, Append(old, NewAdapter)),
                !.issued = MapPut(@, name, <<>>)]

\* Namespace.to and the accessor Namespace.volatile, as a ParentNamespace
\* inherits them: they stage in the parent's own Set and flags.
ParentNamespaceTo(st, p, rs) ==
  [st EXCEPT !.server.parentNsps[p].rooms = @ \cup rs]

ParentNamespaceFlag(st, p, fs) ==
  [st EXCEPT !.server.parentNsps[p].flags = @ \cup fs]

RECURSIVE ParentNamespaceEach(_, _, _, _, _)
\* The forEach of ParentNamespace.emit over the children `names`: the
\* child's `rooms` field is made to refer to the parent's Set, its flags
\* are the parent's, and the child emits.  A throw of the child's emit
\* ends the loop.
ParentNamespaceEach(st, p, names, ev, cb) ==
  IF names = <<>> THEN st
  ELSE LET n == Head(names)
           st1 == [st EXCEPT !.nsps[n].shared = p,
                             !.nsps[n].flags = st.server.parentNsps[p].flags]
           st2 == NamespaceEmit(st1, n, ev, cb)
       IN IF st2.last.outcome = "throw" THEN st2
          ELSE ParentNamespaceEach(st2, p, Tail(names), ev, cb)

\* The parent clears only its flags after the loop.
ParentNamespaceEmitKeepsRooms(st, p, ev, cb) ==
  LET P == st.server.parentNsps[p]
      rec(o) == EmitRecord("ParentNamespace.emit", p, "", ev, cb, P.rooms, P.flags, o)
      st1 == ParentNamespaceEach(st, p, P.children, ev, cb)
  IN IF P.children # <<>> /\ st1.last.outcome = "throw"
     THEN [st1 EXCEPT !.last = rec("throw")]
     ELSE [st1 EXCEPT !.server.parentNsps[p].flags = {},
                      !.last = rec("children")]

\* ParentNamespace.emit(ev, ...): every child emits, then the parent's Set
\* is cleared and its flags are replaced by a new object.
ParentNamespaceEmit(st, p, ev, cb) ==
  LET P == st.server.parentNsps[p]
      rec(o) == EmitRecord("ParentNamespace.emit", p, "", ev, cb, P.rooms, P.flags, o)
      st1 == ParentNamespaceEach(st, p, P.children, ev, cb)
  IN IF P.children # <<>> /\ st1.last.outcome = "throw"
     THEN [st1 EXCEPT !.last = rec("throw")]
     ELSE [st1 EXCEPT !.server.parentNsps[p].rooms = {},
                      !.server.parentNsps[p].flags = {},
                      !.last = rec("children")]

\* The false branch of the callback Client.connect hands to checkNamespace.
ClientInvalidNamespace(st, c, name) ==
  ClientPacket(st, c, Packet("ERROR", name, -1, "Invalid namespace"), NoOpts)

\* The first refusal ends the check.
ServerCheckRunOnce(st, k) ==
  LET chk == st.server.checks[k]
  IN ClientInvalidNamespace([st EXCEPT !.server.checks[k].state = "refused"],
                            chk.c, chk.name)

\* run() of Server.checkNamespace after a refusal: the key iterator of
\* parentNsps, which sees matchers registered meanwhile, gives the next
\* matcher, or is done and the callback gets false.
ServerCheckRun(st, k) ==
  LET chk == st.server.checks[k]
  IN IF chk.at < Len(st.server.parentNsps)
     THEN [st EXCEPT !.server.checks[k].at = @ + 1]
     ELSE ClientInvalidNamespace([st EXCEPT !.server.checks[k].state = "refused"],
                                 chk.c, chk.name)

\* Server.checkNamespace: false at once without parent namespaces, else the
\* first matcher is asked.  A check keeps its record when it has ended.
ServerCheckNamespace(st, c, name, query) ==
  IF Len(st.server.parentNsps) = 0
  THEN ClientInvalidNamespace(st, c, name)
  ELSE [st EXCEPT !.server.checks = Append(@, [c |-> c, name |-> name,
                                               query |-> query,
                                               at |-> 1, state |-> "asking"])]

\* The matcher asked by check k calls back: on (null, true) the child is
\* created and the callback of Client.connect goes on to doConnect.
ServerCheckAnswer(st, k, allow) ==
  LET chk == st.server.checks[k]
  IN IF allow
     THEN ClientDoConnect(
            ParentNamespaceCreateChild(
              [st EXCEPT !.server.checks[k].state = "accepted"], chk.at, chk.name),
            chk.c, chk.name, chk.query)
     ELSE ServerCheckRun(st, k)

\* Every CONNECT consults the parent namespaces.
ClientConnectAlwaysChecks(st, c, name, query) ==
  ServerCheckNamespace(st, c, name, query)

\* Client.connect: a registered name connects; any other name goes to
\* Server.checkNamespace.
ClientConnect(st, c, name, query) ==
  IF name \in DOMAIN st.nsps
  THEN ClientDoConnect(st, c, name, query)
  ELSE ServerCheckNamespace(st, c, name, query)

RECURSIVE ConnectEach(_, _, _, _)
\* this.connectBuffer.forEach(this.connect, this): forEach calls
\* connect(name, index, array), so the second argument, query, is the index
\* k of the name in the buffer.
ConnectEach(st, c, names, k) ==
  IF names = <<>> THEN st
  ELSE ConnectEach(ClientConnect(st, c, Head(names), QueryNumber(k)), c,
                   Tail(names), k + 1)

\* The callback Client.doConnect hands to Namespace.add.
ClientOnApproved(st, i) ==
  LET c == st.sockets[i].client
      n == st.sockets[i].nsp
      st1 == [st EXCEPT !.clients[c].sockets = MapPut(@, st.sockets[i].id, i),
                        !.clients[c].nsps = MapPut(@, n, i)]
      buf == st1.clients[c].connectBuffer
  IN IF n = "/" /\ Len(buf) > 0
     THEN [ConnectEach(st1, c, buf, 0) EXCEPT !.clients[c].connectBuffer = <<>>]
     ELSE st1

\* What a `connect` listener of the namespace can observe of socket i: it is
\* the socket filed under its id in the two maps of the namespace and the
\* two maps of its Client, and its id is a member of the room of that name.
FiledAll(st, i) ==
  LET s == st.sockets[i]
      N == st.nsps[s.nsp]
      C == st.clients[s.client]
  IN /\ s.id \in DOMAIN N.sockets /\ N.sockets[s.id] = i
     /\ s.id \in DOMAIN N.connected /\ N.connected[s.id] = i
     /\ s.id \in MapGet(AdapterOf(st, i).rooms, s.id, {})
     /\ s.id \in DOMAIN C.sockets /\ C.sockets[s.id] = i
     /\ s.nsp \in DOMAIN C.nsps /\ C.nsps[s.nsp] = i

\* super.emit("connect", socket); super.emit("connection", socket) of
\* Namespace.add.  `announced` is the log of the namespace events fired for
\* the socket, `seenFiled` is FiledAll as the `connect` listener reads it.
NamespaceAnnounce(st, i) ==
  [st EXCEPT !.sockets[i].emitted = Append(@, "connect"),
             !.sockets[i].announced = @ \o <<"connect", "connection">>,
             !.sockets[i].seenFiled = FiledAll(st, i)]

\* The events fire right after the socket is put in the namespace's map.
NamespaceAddContinueAnnouncesFirst(st, i, err) ==
  LET c == st.sockets[i].client
      n == st.sockets[i].nsp
  IN IF st.clients[c].readyState = "open"
     THEN IF err # NoError
          THEN [SocketError(st, i, err) EXCEPT !.sockets[i].phase = "rejected"]
          ELSE LET st1 == [st EXCEPT !.nsps[n].sockets =
                                        MapPut(@, st.sockets[i].id, i)]
                   st2 == NamespaceAnnounce(st1, i)
                   st3 == ClientOnApproved(SocketOnconnect(st2, i), i)
               IN [st3 EXCEPT !.sockets[i].phase = "approved"]
     ELSE [st EXCEPT !.sockets[i].phase = "abandoned"]

\* The continuation registers the socket whatever the middleware said.
NamespaceAddContinueIgnoresError(st, i, err) ==
  LET c == st.sockets[i].client
      n == st.sockets[i].nsp
  IN IF st.clients[c].readyState = "open"
     THEN LET st1 == [st EXCEPT !.nsps[n].sockets = MapPut(@, st.sockets[i].id, i)]
              st2 == SocketOnconnect(st1, i)
              st3 == ClientOnApproved(st2, i)
          IN [st3 EXCEPT !.sockets[i].phase = "approved",
                         !.sockets[i].emitted = Append(@, "connect")]
     ELSE [st EXCEPT !.sockets[i].phase = "abandoned"]

\* The state of the connection is not looked at.
NamespaceAddContinueIgnoresState(st, i, err) ==
  LET n == st.sockets[i].nsp
  IN IF err # NoError
     THEN [SocketError(st, i, err) EXCEPT !.sockets[i].phase = "rejected"]
     ELSE LET st1 == [st EXCEPT !.nsps[n].sockets = MapPut(@, st.sockets[i].id, i)]
              st2 == SocketOnconnect(st1, i)
              st3 == ClientOnApproved(st2, i)
          IN [st3 EXCEPT !.sockets[i].phase = "approved",
                         !.sockets[i].emitted = Append(@, "connect")]

\* The nextTick continuation of Namespace.add.
NamespaceAddContinue(st, i, err) ==
  LET c == st.sockets[i].client
      n == st.sockets[i].nsp
  IN IF st.clients[c].readyState = "open"
     THEN IF err # NoError
          THEN [SocketError(st, i, err) EXCEPT !.sockets[i].phase = "rejected"]
          ELSE LET st1 == [st EXCEPT !.nsps[n].sockets =
                                        MapPut(@, st.sockets[i].id, i)]
                   st2 == SocketOnconnect(st1, i)
                   st3 == ClientOnApproved(st2, i)
               IN [NamespaceAnnounce(st3, i) EXCEPT !.sockets[i].phase = "approved"]
     ELSE [st EXCEPT !.sockets[i].phase = "abandoned"]

\* ------------------------------------------------------------------ Server
\* Server.of(name) for a name not registered yet.
ServerOf(st, name) ==
  [st EXCEPT !.nsps = MapPut(@, name, NewNamespace),
             !.adapters = MapPut(@, name, <<NewAdapter>>),
             !.issued = MapPut(@, name, <<>>)]

\* Server.adapter(v): every registered namespace gets a fresh adapter
\* (Namespace.initAdapter); sockets keep the instance they were built with.
ServerAdapter(st) ==
  [st EXCEPT !.adapters = [n \in DOMAIN @ |-> Append(@[n], NewAdapter)],
             !.nsps = [n \in DOMAIN @ |->
                         [@[n] EXCEPT !.adapter = Len(st.adapters[n]) + 1]]]

\* engine.close(): the close of every open connection is asked for (their
\* close events follow).
EngineClose(st) ==
  [st EXCEPT !.clients = [c \in DOMAIN @ |->
                IF @[c].readyState = "open"
                THEN [@[c] EXCEPT !.readyState = "closing"] ELSE @[c]],
             !.closed = TRUE]

\* The callback of Server.close is invoked; `cbSaw` is what it can observe:
\* whether the engine has been closed, and the ids still filed in the
\* default namespace.
ServerCloseCallback(st) ==
  [st EXCEPT !.server.cb = "called",
             !.server.cbSaw = [closed |-> st.closed,
                               sockets |-> DOMAIN st.nsps["/"].sockets]]

\* The end of Server.close: the http server, when there is one, is closed
\* and invokes fn later; else fn is invoked at once.
ServerCloseEnd(st, fn) ==
  IF st.server.attached
  THEN IF fn THEN [st EXCEPT !.server.cb = "pending"] ELSE st
  ELSE IF fn THEN ServerCloseCallback(st) ELSE st

\* The engine is closed before the sockets are.
ServerCloseEngineFirst(st, fn) ==
  LET st1 == EngineClose(st)
      idxs == {st1.nsps["/"].sockets[k] : k \in DOMAIN st1.nsps["/"].sockets}
  IN ServerCloseEnd(OncloseAll(st1, idxs, "server shutting down"), fn)

\* Server.close(fn): onclose on every socket of the default namespace, then
\* engine.close(), then the http server and fn.
ServerClose(st, fn) ==
  LET idxs == {st.nsps["/"].sockets[k] : k \in DOMAIN st.nsps["/"].sockets}
      st1 == OncloseAll(st, idxs, "server shutting down")
  IN ServerCloseEnd(EngineClose(st1), fn)

\* new Client(server, conn) on an open connection.
NewClient == [readyState |-> "open", writable |-> TRUE, attached |-> TRUE,
              sockets |-> EmptyMap, nsps |-> EmptyMap, connectBuffer |-> <<>>,
              late |-> {}]

\* Server.onconnection: a Client for the connection, connected to "/".
ServerOnconnection(st, c) ==
  ClientConnect([st EXCEPT !.clients[c] = NewClient], c, "/", NoQuery)

\* Client.ondecoded: CONNECT goes to connect; any other packet goes to the
\* socket filed under its namespace on the next tick, or is dropped.
ClientOndecoded(st, c, type, name, id, data) ==
  IF type = "CONNECT"
  THEN LET after == \E i \in DOMAIN st.sockets :
                       /\ st.sockets[i].client = c
                       /\ st.sockets[i].phase = "rejected"
                       /\ st.sockets[i].nsp # name
           st1 == ClientConnect(st, c, name, PacketQuery(data))
       IN \* `late` records the registered names asked for after a rejection
          IF after /\ name \in DOMAIN st.nsps
          THEN [st1 EXCEPT !.clients[c].late = @ \cup {name}]
          ELSE st1
  ELSE IF name \in DOMAIN st.clients[c].nsps
       THEN [st EXCEPT !.ticks = Append(@, [kind |-> "packet",
                                           s |-> st.clients[c].nsps[name],
                                           err |-> NoError, type |-> type,
                                           id |-> id, data |-> data])]
       ELSE st

\* Client.ondata: decoder.add either leads to ondecoded for the packet or
\* throws, and the catch hands the error to onerror.
ClientOndata(st, c, throws, type, name, id, data) ==
  IF throws THEN ClientOnerror(st, c, DecoderError)
  ELSE ClientOndecoded(st, c, type, name, id, data)

\* One callback of the nextTick queue.
RunTick(st, t) ==
  CASE t.kind = "add" -> NamespaceAddContinue(st, t.s, t.err)
    [] t.kind = "dispatch" -> SocketDispatchContinue(st, t.s, t.data, t.id, t.err)
    [] OTHER -> SocketOnpacket(st, t.s, t.type, t.id, t.data)

\* Namespace.run reading the namespace's middleware list at every step
\* instead of the copy taken on entry.
NamespaceRunNextLive(st, i, err) ==
  LET s == st.sockets[i]
      left == st.nsps[s.nsp].fns - (s.chain - s.mw)
  IN IF err # NoError \/ left = 1
     THEN [st EXCEPT !.sockets[i].phase = "tick", !.sockets[i].mw = 0,
                     !.sockets[i].chain = 0,
                     !.sockets[i].rejection = err,
                     !.ticks = Append(@, [kind |-> "add", s |-> i, err |-> err,
                                         type |-> "", id |-> -1, data |-> ""])]
     ELSE [st EXCEPT !.sockets[i].mw = @ - 1]

\* A connect middleware of socket i calls next(err): on an error, or after
\* the last middleware of the chain, the continuation is deferred one tick.
NamespaceRunNext(st, i, err) ==
  IF err # NoError \/ st.sockets[i].mw = 1
  THEN [st EXCEPT !.sockets[i].phase = "tick", !.sockets[i].mw = 0,
                  !.sockets[i].chain = 0,
                  !.sockets[i].rejection = err,
                  !.ticks = Append(@, [kind |-> "add", s |-> i, err |-> err,
                                      type |-> "", id |-> -1, data |-> ""])]
  ELSE [st EXCEPT !.sockets[i].mw = @ - 1]

\* ------------------------------------------------------------------ Init
Init ==
  /\ sockets = <<>>
  /\ nsps = [n \in {"/"} |-> NewNamespace]
  /\ adapters = [n \in {"/"} |-> <<NewAdapter>>]
  /\ clients = [c \in ClientIds |->
                  [readyState |-> "none", writable |-> TRUE, attached |-> FALSE,
                   sockets |-> EmptyMap, nsps |-> EmptyMap,
                   connectBuffer |-> <<>>, late |-> {}]]
  /\ ticks = <<>>
  /\ wire = <<>>
  /\ last = NoEmit
  /\ issued = [n \in {"/"} |-> <<>>]
  /\ closed = FALSE
  /\ server = NewServer

\* new Server() without an http server: attach has not run.
InitDetached ==
  /\ sockets = <<>>
  /\ nsps = [n \in {"/"} |-> NewNamespace]
  /\ adapters = [n \in {"/"} |-> <<NewAdapter>>]
  /\ clients = [c \in ClientIds |->
                  [readyState |-> "none", writable |-> TRUE, attached |-> FALSE,
                   sockets |-> EmptyMap, nsps |-> EmptyMap,
                   connectBuffer |-> <<>>, late |-> {}]]
  /\ ticks = <<>>
  /\ wire = <<>>
  /\ last = NoEmit
  /\ issued = [n \in {"/"} |-> <<>>]
  /\ closed = FALSE
  /\ server = [NewServer EXCEPT !.attached = FALSE, !.initialPacket = FALSE]

\* ------------------------------------------------------------------ guards
RECURSIVE Buffered(_)
\* CONNECTs waiting in connectBuffers: each becomes a Socket on replay.
Buffered(cs) ==
  IF cs = {} THEN 0
  ELSE LET c == CHOOSE x \in cs : TRUE
       IN Len(clients[c].connectBuffer) + Buffered(cs \ {c})

RoomForSocket == Len(sockets) + Buffered(ClientIds) < MaxSockets

Approved == {i \in DOMAIN sockets : sockets[i].phase = "approved"}

Receiving(c) == clients[c].readyState = "open" /\ clients[c].attached

PendingPackets == Len(SelectSeq(ticks, LAMBDA t : t.kind = "packet"))

\* ------------------------------------------------------------------ actions
\* One action is one handler run, started from the event loop.  What the
\* handler wrote (`wire`) and the emit it made (`last`) stay in the state
\* until Return, so that they can be observed; then the next handler starts.

\* The handler has returned: its frames have gone to the transport.
Return ==
  /\ ~Quiet
  /\ wire' = <<>>
  /\ last' = NoEmit
  /\ UNCHANGED <<sockets, nsps, adapters, clients, ticks, issued, closed, server>>

\* The transport delivers a new Connection.
OnConnection(c) ==
  /\ Quiet
  /\ ~closed
  /\ server.attached
  /\ clients[c].readyState = "none"
  /\ RoomForSocket
  /\ Commit(ServerOnconnection(EngineHandshake(Cur, c), c))

\* The peer sends CONNECT for a name.
OnConnectPacket(c, name) ==
  /\ Quiet
  /\ Receiving(c)
  /\ name \in DOMAIN nsps => RoomForSocket
  /\ name \notin DOMAIN nsps => server.parentNsps = <<>>
  /\ Commit(ClientOndecoded(Cur, c, "CONNECT", name, -1, ""))

\* The peer sends CONNECT for a name while the connection has no socket
\* filed under the default namespace.
OnEarlyConnect(c, name) ==
  /\ Quiet
  /\ Receiving(c)
  /\ "/" \notin DOMAIN clients[c].nsps
  /\ Len(clients[c].connectBuffer) < MaxBuffer
  /\ Commit(ClientOndecoded(Cur, c, "CONNECT", name, -1, ""))

\* The checks whose matcher has not answered yet.
Asking == {k \in DOMAIN server.checks : server.checks[k].state = "asking"}

\* The peer sends CONNECT for a name that only a parent namespace accepts.
OnDynConnect(c, name) ==
  /\ Quiet
  /\ Receiving(c)
  /\ Len(sockets) + Buffered(ClientIds) + Cardinality(Asking) <= MaxChecks
  /\ (name \notin DOMAIN nsps /\ server.parentNsps # <<>>)
        => Len(server.checks) < MaxChecks
  /\ Commit(ClientOndecoded(Cur, c, "CONNECT", name, -1, ""))

\* The peer sends CONNECT for a registered name with a query string whose
\* key is q, before or after the connection has its default socket.
OnConnectWith(c, name, q) ==
  /\ Quiet
  /\ Receiving(c)
  /\ name \in DOMAIN nsps
  /\ RoomForSocket
  /\ Len(clients[c].connectBuffer) < MaxBuffer
  /\ Commit(ClientOndecoded(Cur, c, "CONNECT", name, -1, q))

\* The peer of any connection that has its default socket sends its first
\* CONNECT for such a name, also while the check of another connection is
\* waiting for its matcher.
OnDynConnectAny(c, name) ==
  /\ Quiet
  /\ Receiving(c)
  /\ "/" \in DOMAIN clients[c].nsps
  /\ \A i \in DOMAIN sockets : ~(sockets[i].client = c /\ sockets[i].nsp = name)
  /\ \A k \in DOMAIN server.checks :
        ~(server.checks[k].c = c /\ server.checks[k].name = name)
  /\ Len(server.checks) < MaxChecks
  /\ Commit(ClientOndecoded(Cur, c, "CONNECT", name, -1, ""))

\* The matcher a check is waiting for calls its callback.
MatcherAnswer(k, allow) ==
  /\ Quiet
  /\ k \in Asking
  /\ Commit(ServerCheckAnswer(Cur, k, allow))

\* The application calls io.attach(srv).
CallAttach ==
  /\ Quiet
  /\ ~server.attached
  /\ Commit(ServerAttach(Cur))

\* The application calls io.of(fn) with a new matcher.
CallOfMatcher ==
  /\ Quiet
  /\ Len(server.parentNsps) < MaxMatchers
  /\ Commit(ServerOfMatcher(Cur))

\* The application calls io.of(fn).to(..).<flags>.emit(ev, .., [cb]) on the
\* parent namespace of a matcher.
CallParentEmit(p, rs, fs, ev, cb) ==
  /\ Quiet
  /\ p \in DOMAIN server.parentNsps
  /\ Commit(ParentNamespaceEmit(ParentNamespaceFlag(ParentNamespaceTo(Cur, p, rs), p, fs),
                                p, ev, cb))

\* The application calls io.of(fn).to(room) and emits nothing yet.
CallParentTo(p, rs) ==
  /\ Quiet
  /\ p \in DOMAIN server.parentNsps
  /\ rs # {}
  /\ server.parentNsps[p].rooms # rs
  /\ Commit(ParentNamespaceTo(Cur, p, rs))

\* The peer sends another packet (DISCONNECT, ACK) on a namespace.
OnPacket(c, name, type, id, data) ==
  /\ Quiet
  /\ Receiving(c)
  /\ PendingPackets < MaxTicks
  /\ Commit(ClientOndecoded(Cur, c, type, name, id, data))

\* The event loop runs the next nextTick callback.
Tick ==
  /\ Quiet
  /\ ticks # <<>>
  /\ Commit(RunTick([Cur EXCEPT !.ticks = Tail(@)], Head(ticks)))

\* A connect middleware calls next.
MiddlewareNext(i, err) ==
  /\ Quiet
  /\ sockets[i].phase = "mw"
  /\ Commit(NamespaceRunNext(Cur, i, err))

\* The transport closes: readyState is closed, then the close event.
OnTransportClose(c) ==
  /\ Quiet
  /\ clients[c].readyState \in {"open", "closing"}
  /\ LET st == [Cur EXCEPT !.clients[c].readyState = "closed"]
     IN Commit(IF clients[c].attached THEN ClientOnclose(st, c, "transport close")
               ELSE st)

\* The peer sends data the decoder throws on.
OnBadData(c) ==
  /\ Quiet
  /\ Receiving(c)
  /\ Commit(ClientOndata(Cur, c, TRUE, "", "", -1, ""))

\* The open connection reports an error.
OnTransportError(c) ==
  /\ Quiet
  /\ Receiving(c)
  /\ Commit(ClientOnerror(Cur, c, TransportError))

\* The transport becomes writable or stops being so.
OnWritable(c) ==
  /\ Quiet
  /\ clients[c].readyState = "open"
  /\ Commit([Cur EXCEPT !.clients[c].writable = ~@])

\* The application calls socket.join(r).
CallJoin(i, r) ==
  /\ Quiet
  /\ i \in Approved
  /\ Commit(SocketJoin(Cur, i, {r}))

\* The application calls socket.leave(r).
CallLeave(i, r) ==
  /\ Quiet
  /\ i \in Approved
  /\ Commit(SocketLeave(Cur, i, r))

\* The application calls socket.to(..).<flags>.emit(ev, .., [cb]): the rooms
\* rs and the flags fs are staged, then emit runs.  Staging touches the
\* socket's own _rooms and flags only, which nothing but its emit reads.
CallEmit(i, rs, fs, ev, cb) ==
  /\ Quiet
  /\ i \in Approved
  /\ cb => nsps[sockets[i].nsp].ids < MaxIds
  /\ Commit(SocketEmit(SocketFlag(SocketTo(Cur, i, rs), i, fs), i, ev, cb))

\* The peer sends an EVENT packet, with an id when it wants an answer.
OnEvent(c, name, id, ev) ==
  /\ Quiet
  /\ Receiving(c)
  /\ name \in DOMAIN clients[c].nsps
  /\ sockets[clients[c].nsps[name]].seen + PendingPackets < MaxEvents
  /\ PendingPackets < MaxTicks
  /\ Commit(ClientOndecoded(Cur, c, "EVENT", name, id, ev))

\* The application calls socket.use(fn).
CallSocketUse(i) ==
  /\ Quiet
  /\ i \in Approved
  /\ sockets[i].fns < MaxFns
  /\ Commit(SocketUse(Cur, i))

\* An event middleware calls next.
EventMiddlewareNext(i, k, err) ==
  /\ Quiet
  /\ k \in DOMAIN sockets[i].pending
  /\ Commit(SocketRunNext(Cur, i, k, err))

\* The ack callbacks a middleware or a listener of socket i holds.
Handed(i) ==
  {sockets[i].pending[j].cb : j \in DOMAIN sockets[i].pending}
    \cup {sockets[i].received[j].cb : j \in DOMAIN sockets[i].received}

\* A middleware or a listener calls the ack callback it was handed.
CallAck(i, k) ==
  /\ Quiet
  /\ k \in Handed(i) \cap DOMAIN sockets[i].cbs
  /\ sockets[i].cbs[k].calls < MaxCalls
  /\ Commit([SocketAck(Cur, i, k) EXCEPT !.sockets[i].cbs[k].calls = @ + 1])

\* The application calls socket.disconnect(close).
CallDisconnect(i, close) ==
  /\ Quiet
  /\ i \in Approved
  /\ Commit(SocketDisconnect(Cur, i, close))

\* The application calls nsp.to(..).<flags>.emit(ev, .., [cb]).
CallNamespaceEmit(n, rs, fs, ev, cb) ==
  /\ Quiet
  /\ n \in DOMAIN nsps
  /\ Commit(NamespaceEmit(NamespaceFlag(NamespaceTo(Cur, n, rs), n, fs), n, ev, cb))

\* The application calls nsp.use(fn).
CallUse(n) ==
  /\ Quiet
  /\ n \in DOMAIN nsps
  /\ nsps[n].fns < MaxFns
  /\ Commit(NamespaceUse(Cur, n))

\* The application calls nsp.use(fn) again, also while a chain is running.
CallUseAgain(n) ==
  /\ Quiet
  /\ n \in DOMAIN nsps
  /\ nsps[n].fns < MaxChain
  /\ LET st == NamespaceUse(Cur, n)
     IN Commit([st EXCEPT !.sockets =
                  [i \in DOMAIN @ |->
                     IF @[i].nsp = n /\ @[i].phase = "mw"
                     THEN [@[i] EXCEPT !.late = @ + 1] ELSE @[i]]])

\* The application calls io.of(name) for a new name.
CallOf(name) ==
  /\ Quiet
  /\ name \notin DOMAIN nsps
  /\ Commit(ServerOf(Cur, name))

\* The application calls io.adapter(v).
CallAdapter ==
  /\ Quiet
  /\ \A n \in DOMAIN adapters : Len(adapters[n]) < MaxAdapters
  /\ Commit(ServerAdapter(Cur))

\* The application calls io.close().
CallClose(fn) ==
  /\ Quiet
  /\ ~closed
  /\ Commit(ServerClose(Cur, fn))

\* The application puts a listener of `disconnect` on a connected socket.
CallOnDisconnect(i) ==
  /\ Quiet
  /\ i \in Approved
  /\ sockets[i].connected
  /\ ~sockets[i].listener
  /\ Commit(SocketOnDisconnect(Cur, i))

\* The http server has closed and invokes the callback Server.close gave it.
OnHttpClose ==
  /\ Quiet
  /\ server.cb = "pending"
  /\ Commit(ServerCloseCallback(Cur))

\* Connection ids are interchangeable: c2 is used once c1 is.
InOrder(c) ==
  \/ c = "c1"
  \/ c = "c2" /\ clients["c1"].readyState # "none"

\* The rooms the application joins and leaves: its own, and the socket's id.
RoomsOf(i) == UserRooms \cup {sockets[i].id}

\* ------------------------------------------------------------------ Spec
\* Connections, namespaces, sockets and rooms from birth to death.
Next ==
  \/ \E c \in ClientIds : InOrder(c) /\ OnConnection(c)
  \/ \E c \in ClientIds, name \in PeerNames : OnConnectPacket(c, name)
  \/ \E c \in ClientIds, name \in ServerNames : OnPacket(c, name, "DISCONNECT", -1, "")
  \/ Tick
  \/ \E c \in ClientIds : OnTransportClose(c)
  \/ \E i \in DOMAIN sockets : \E r \in RoomsOf(i) :
        sockets[i].connected /\ CallJoin(i, r)
  \/ \E i \in DOMAIN sockets : \E r \in RoomsOf(i) :
        sockets[i].connected /\ CallLeave(i, r)
  \/ \E i \in DOMAIN sockets, close \in BOOLEAN : CallDisconnect(i, close)
  \/ \E n \in ServerNames : CallOf(n)
  \/ CallClose(FALSE)
  \/ Return

Spec == Init /\ [][Next]_vars

\* ------------------------------------------------------------------ SpecAdapter
\* The same, with the application replacing the adapter while running.
NextAdapter ==
  \/ Next
  \/ CallAdapter

SpecAdapter == Init /\ [][NextAdapter]_vars

\* ------------------------------------------------------------------ SpecMw
\* The same as Spec, with connect middleware installed and run.
NextMw ==
  \/ Next
  \/ \E n \in ServerNames : CallUse(n)
  \/ \E i \in DOMAIN sockets, err \in Errors : MiddlewareNext(i, err)

SpecMw == Init /\ [][NextMw]_vars

\* ------------------------------------------------------------------ SpecReject
\* Connect middleware that accepts or rejects; CONNECT packets after the
\* handshake come from the first connection only.
NextReject ==
  \/ \E c \in ClientIds : InOrder(c) /\ OnConnection(c)
  \/ \E name \in PeerNames : OnConnectPacket("c1", name)
  \/ \E name \in ServerNames : OnPacket("c1", name, "DISCONNECT", -1, "")
  \/ Tick
  \/ OnTransportClose("c1")
  \/ \E n \in ServerNames : CallOf(n)
  \/ \E n \in ServerNames : CallUse(n)
  \/ \E i \in DOMAIN sockets, err \in Errors : MiddlewareNext(i, err)
  \/ Return

SpecReject == Init /\ [][NextReject]_vars

\* ------------------------------------------------------------------ SpecBuffer
\* One connection whose peer asks for other namespaces while the middleware
\* of the default namespace has not answered yet.
NextBuffer ==
  \/ OnConnection("c1")
  \/ \E name \in BufferNames \cup {"/nope"} : OnEarlyConnect("c1", name)
  \/ OnConnectPacket("c1", "/chat")
  \/ OnPacket("c1", "/", "DISCONNECT", -1, "")
  \/ Tick
  \/ OnTransportClose("c1")
  \/ \E n \in BufferNames : CallOf(n)
  \/ \E n \in {"/", "/chat"} : CallUse(n)
  \/ \E i \in DOMAIN sockets, err \in Errors : MiddlewareNext(i, err)
  \/ Return

SpecBuffer == Init /\ [][NextBuffer]_vars

\* ------------------------------------------------------------------ SpecDyn
\* One connection whose peer asks for names that only parent namespaces
\* can accept; the matchers answer when they like.
NextDyn ==
  \/ OnConnection("c1")
  \/ \E name \in DynNames : OnDynConnect("c1", name)
  \/ \E k \in DOMAIN server.checks, allow \in BOOLEAN : MatcherAnswer(k, allow)
  \/ CallOfMatcher
  \/ Tick
  \/ OnTransportClose("c1")
  \/ Return

SpecDyn == Init /\ [][NextDyn]_vars

\* ------------------------------------------------------------------ SpecParent
\* One connection with a socket in each of two children of one parent
\* namespace; the sockets join a room and the parent namespace emits.
NextParent ==
  \/ OnConnection("c1")
  \/ \E name \in DynNames : OnDynConnect("c1", name)
  \/ \E k \in DOMAIN server.checks : MatcherAnswer(k, TRUE)
  \/ Len(server.parentNsps) = 0 /\ CallOfMatcher
  \/ Tick
  \/ \E i \in DOMAIN sockets, r \in UserRooms :
        sockets[i].connected /\ sockets[i].nsp # "/" /\ CallJoin(i, r)
  \/ \E rs \in SUBSET UserRooms, fs \in SUBSET NamespaceFlags,
        ev \in NamespaceEvents, cb \in BOOLEAN : CallParentEmit(1, rs, fs, ev, cb)
  \/ Return

SpecParent == Init /\ [][NextParent]_vars

\* ------------------------------------------------------------------ SpecClose
\* Two connections, the first with a socket in a second namespace as well;
\* sockets join a room, are disconnected by the application, and the
\* transports close.
NextClose ==
  \/ \E c \in ClientIds : InOrder(c) /\ OnConnection(c)
  \/ CallOf("/chat")
  \/ \E name \in ServerNames : OnConnectPacket("c1", name)
  \/ Tick
  \/ \E c \in ClientIds : OnTransportClose(c)
  \/ \E i \in DOMAIN sockets : sockets[i].connected /\ CallJoin(i, "r1")
  \/ \E i \in DOMAIN sockets, close \in BOOLEAN :
        sockets[i].client = "c1" /\ CallDisconnect(i, close)
  \/ Return

SpecClose == Init /\ [][NextClose]_vars

\* ------------------------------------------------------------------ SpecError
\* Two connections, the first with a socket in a second namespace as well;
\* the peer sends data that cannot be decoded, or the connection reports an
\* error.  The engine closes a connection whose close was asked for, and a
\* handler that has started returns.
NextError ==
  \/ \E c \in ClientIds : InOrder(c) /\ OnConnection(c)
  \/ CallOf("/chat")
  \/ OnConnectPacket("c1", "/chat")
  \/ Tick
  \/ \E c \in ClientIds : OnTransportClose(c)
  \/ \E c \in ClientIds : OnBadData(c)
  \/ \E c \in ClientIds : OnTransportError(c)
  \/ \E i \in DOMAIN sockets : sockets[i].connected /\ CallJoin(i, "r1")
  \/ Return

\* The close event of a connection whose close was asked for: the step
\* OnTransportClose(c) takes from such a state, and the states it can be
\* taken from.
ClosingCloses(c) ==
  clients[c].readyState = "closing" /\ clients'[c].readyState = "closed"

ClosingCanClose(c) == Quiet /\ clients[c].readyState = "closing"

\* Strong fairness of ClosingCloses(c), with its enabling condition written
\* out: the event loop gets to the close event however many handlers run
\* before it.
EngineCloses(c) ==
  \/ <>[](~ClosingCanClose(c))
  \/ []<><<ClosingCloses(c)>>_vars

SpecError ==
  /\ Init /\ [][NextError]_vars
  /\ WF_vars(Return)
  /\ \A c \in ClientIds : EngineCloses(c)

\* ------------------------------------------------------------------ SpecShutdown
\* Two connections, the first with a socket in a second namespace as well;
\* the application listens to `disconnect` on some sockets and closes the
\* server, with or without a callback, and the transports close afterwards.
NextShutdown ==
  \/ \E c \in ClientIds : InOrder(c) /\ OnConnection(c)
  \/ CallOf("/chat")
  \/ \E name \in ServerNames : OnConnectPacket("c1", name)
  \/ OnPacket("c1", "/", "DISCONNECT", -1, "")
  \/ Tick
  \/ \E c \in ClientIds : OnTransportClose(c)
  \/ OnTransportError("c2")
  \/ \E i \in DOMAIN sockets : CallOnDisconnect(i)
  \/ \E fn \in BOOLEAN : CallClose(fn)
  \/ OnHttpClose
  \/ Return

SpecShutdown == Init /\ [][NextShutdown]_vars

\* ------------------------------------------------------------------ SpecPacket
\* Sockets that emit to their own peer, volatile or not, over connections
\* that are open, not writable, closing or closed.
NextPacket ==
  \/ \E c \in ClientIds : InOrder(c) /\ OnConnection(c)
  \/ Tick
  \/ \E c \in ClientIds : OnTransportClose(c)
  \/ \E c \in ClientIds : OnWritable(c)
  \/ CallClose(FALSE)
  \/ \E i \in DOMAIN sockets, fs \in SUBSET {"volatile"} :
        CallEmit(i, {}, fs, "x", FALSE)
  \/ Return

SpecPacket == Init /\ [][NextPacket]_vars

\* ------------------------------------------------------------------ SpecPiggy
\* A server that is attached after its construction, with middleware put on
\* the default namespace at any time.
NextPiggy ==
  \/ CallAttach
  \/ CallUse("/")
  \/ \E c \in ClientIds : InOrder(c) /\ OnConnection(c)
  \/ \E i \in DOMAIN sockets, err \in Errors : MiddlewareNext(i, err)
  \/ Tick
  \/ \E c \in ClientIds : OnTransportClose(c)
  \/ Return

SpecPiggy == InitDetached /\ [][NextPiggy]_vars

\* ------------------------------------------------------------------ SpecRooms
\* Sockets of the default namespace that join and leave rooms while the
\* application emits on the namespace to sets of rooms.
NextRooms ==
  \/ \E c \in ClientIds : InOrder(c) /\ OnConnection(c)
  \/ Tick
  \/ \E c \in ClientIds : OnTransportClose(c)
  \/ OnWritable("c2")
  \/ \E i \in DOMAIN sockets, r \in UserRooms :
        sockets[i].connected /\ CallJoin(i, r)
  \/ \E i \in DOMAIN sockets : \E r \in RoomsOf(i) :
        sockets[i].connected /\ CallLeave(i, r)
  \/ \E rs \in SUBSET (UserRooms \cup ClientIds), fs \in SUBSET NamespaceFlags :
        CallNamespaceEmit("/", rs, fs, "x", FALSE)
  \/ Return

SpecRooms == Init /\ [][NextRooms]_vars

\* ------------------------------------------------------------------ SpecReserved
\* The application emits every reserved event name, and one that is not
\* reserved, on sockets and on the default namespace.
NextReserved ==
  \/ \E c \in ClientIds : InOrder(c) /\ OnConnection(c)
  \/ Tick
  \/ OnTransportClose("c2")
  \/ \E i \in DOMAIN sockets : sockets[i].connected /\ CallJoin(i, "r1")
  \/ \E i \in DOMAIN sockets, rs \in SUBSET UserRooms, fs \in SUBSET SocketFlags,
        ev \in ReservedNames \cup {"x"}, cb \in BOOLEAN :
        sockets[i].client = "c1" /\ CallEmit(i, rs, fs, ev, cb)
  \/ \E rs \in SUBSET UserRooms, ev \in ReservedNames \cup {"connection", "x"},
        cb \in BOOLEAN :
        CallNamespaceEmit("/", rs, {}, ev, cb)
  \/ Return

SpecReserved == Init /\ [][NextReserved]_vars

\* ------------------------------------------------------------------ SpecEmit
\* Sockets of the default namespace that join rooms; the sockets of
\* connection c1 emit, the other connections receive.
NextEmit ==
  \/ \E c \in ClientIds : InOrder(c) /\ OnConnection(c)
  \/ Tick
  \/ \E c \in ClientIds : OnTransportClose(c)
  \/ \E c \in ClientIds \ {"c1"} : OnWritable(c)
  \/ \E i \in DOMAIN sockets, r \in UserRooms : CallJoin(i, r)
  \/ \E i \in DOMAIN sockets, r \in UserRooms : CallLeave(i, r)
  \/ \E i \in DOMAIN sockets : CallDisconnect(i, FALSE)
  \/ \E i \in DOMAIN sockets, rs \in SUBSET UserRooms, fs \in SUBSET SocketFlags,
        ev \in SocketEvents, cb \in BOOLEAN :
        sockets[i].client = "c1" /\ CallEmit(i, rs, fs, ev, cb)
  \/ Return

SpecEmit == Init /\ [][NextEmit]_vars

\* ------------------------------------------------------------------ SpecCallback
\* The same, with the namespace emitting too.
NextCallback ==
  \/ NextEmit
  \/ \E n \in DOMAIN nsps, rs \in SUBSET UserRooms, fs \in SUBSET NamespaceFlags,
        ev \in NamespaceEvents, cb \in BOOLEAN : CallNamespaceEmit(n, rs, fs, ev, cb)

SpecCallback == Init /\ [][NextCallback]_vars

\* ------------------------------------------------------------------ SpecAck
\* Sockets of two namespaces emit events that ask for an acknowledgement,
\* and the peers acknowledge.
NextAck ==
  \/ \E c \in ClientIds : InOrder(c) /\ OnConnection(c)
  \/ \E c \in ClientIds : OnConnectPacket(c, "/chat")
  \/ \E c \in ClientIds, name \in ServerNames, id \in 0 .. MaxIds - 1 :
        OnPacket(c, name, "ACK", id, "pong")
  \/ Tick
  \/ \E i \in DOMAIN sockets, cb \in BOOLEAN : CallEmit(i, {}, {}, "x", cb)
  \/ CallOf("/chat")
  \/ Return

SpecAck == Init /\ [][NextAck]_vars

\* ------------------------------------------------------------------ SpecOnack
\* Sockets of the default namespace emit with callbacks; the peers send ACK
\* packets, also twice and for ids nobody waits for.
NextOnack ==
  \/ \E c \in ClientIds : InOrder(c) /\ OnConnection(c)
  \/ \E c \in ClientIds, id \in 0 .. MaxIds, data \in AckData :
        OnPacket(c, "/", "ACK", id, data)
  \/ Tick
  \/ \E i \in DOMAIN sockets : CallEmit(i, {}, {}, "x", TRUE)
  \/ Return

SpecOnack == Init /\ [][NextOnack]_vars

\* ------------------------------------------------------------------ SpecEvent
\* The peer of connection c1 sends events, with and without ids, to its
\* socket of the default namespace, which runs event middleware; callbacks
\* are called again and again.
NextEvent ==
  \/ \E c \in ClientIds : InOrder(c) /\ OnConnection(c)
  \/ \E id \in {-1, 0}, ev \in InboundEvents : OnEvent("c1", "/", id, ev)
  \/ Tick
  \/ OnTransportClose("c1")
  \/ \E i \in DOMAIN sockets : sockets[i].client = "c1" /\ CallSocketUse(i)
  \/ \E i \in DOMAIN sockets : \E k \in DOMAIN sockets[i].pending :
        \E err \in Errors : EventMiddlewareNext(i, k, err)
  \/ \E i \in DOMAIN sockets : \E k \in DOMAIN sockets[i].cbs : CallAck(i, k)
  \/ Return

SpecEvent == Init /\ [][NextEvent]_vars

\* ------------------------------------------------------------------ properties
\* The lifecycle events a socket has emitted, in order.
Fired(s) == SelectSeq(s.emitted, LAMBDA e : e \in {"disconnecting", "disconnect"})

\* The sockets a Client has registered.
Registered(c) == {clients[c].sockets[k] : k \in DOMAIN clients[c].sockets}

\* The socket ids whose Client was written an EVENT frame by the last step.
Recipients ==
  {SocketIdOf(wire[k].nsp, wire[k].to) : k \in {j \in DOMAIN wire : wire[j].type = "EVENT"}}

\* The members of the rooms rs in adapter a.
Members(a, rs) == UNION {MapGet(a.rooms, r, {}) : r \in rs}

\* The last step was a Socket.emit with rooms or the broadcast flag staged.
SocketBroadcasts ==
  last.op = "Socket.emit" /\ (last.rooms # {} \/ "broadcast" \in last.flags)

\* C1: a Socket has exactly one of connected and disconnected; it is born
\* connected, and the only change ever made is connected -> disconnected.
C1_FlagsOneWay ==
  [][\A i \in DOMAIN sockets' :
       /\ sockets'[i].connected # sockets'[i].disconnected
       /\ IF i \in DOMAIN sockets
          THEN \/ /\ sockets'[i].connected = sockets[i].connected
                  /\ sockets'[i].disconnected = sockets[i].disconnected
               \/ /\ sockets[i].connected /\ ~sockets[i].disconnected
                  /\ ~sockets'[i].connected /\ sockets'[i].disconnected
          ELSE sockets'[i].connected /\ ~sockets'[i].disconnected]_vars

\* A socket that has made the transition after it was registered.
C1_Witness ==
  \E i \in DOMAIN sockets :
     /\ sockets[i].phase = "approved"
     /\ ~sockets[i].connected /\ sockets[i].disconnected

\* C2: a socket that dies has emitted disconnecting then disconnect, once
\* each, and a live one neither; the disconnecting listener saw the rooms the
\* socket was in before the step, the disconnect listener saw it in no room
\* and in none of the four maps.
C2_DisconnectEvents ==
  [][\A i \in DOMAIN sockets' :
       /\ IF sockets'[i].connected
          THEN Fired(sockets'[i]) = <<>>
          ELSE /\ Fired(sockets'[i]) = <<"disconnecting", "disconnect">>
               /\ sockets'[i].seenGone
       /\ (i \in DOMAIN sockets /\ sockets[i].connected /\ ~sockets'[i].connected)
            => sockets'[i].seenRooms = SocketRooms(Cur, i)]_vars

\* A socket that died in a user room, after which the server was closed and
\* its transport closed: several triggers have met the same socket.
C2_Witness ==
  \E i \in DOMAIN sockets :
     /\ ~sockets[i].connected
     /\ {"r1", sockets[i].id} \subseteq sockets[i].seenRooms
     /\ closed
     /\ clients[sockets[i].client].readyState = "closed"

\* C3: a live socket's id is in nsp.connected iff the namespace's adapter has
\* it in sids, in the room named by its id.
C3_Claim ==
  \A i \in DOMAIN sockets :
     sockets[i].connected =>
       LET n == sockets[i].nsp
           a == adapters[n][nsps[n].adapter]
           sid == sockets[i].id
       IN (sid \in DOMAIN nsps[n].connected)
            <=> (sid \in DOMAIN a.sids /\ sid \in MapGet(a.rooms, sid, {}))

\* C4: a Client's two maps have the same size, and each registered socket is
\* the one filed under its namespace name.
C4_ClientMapsAgree ==
  \A c \in ClientIds :
     /\ Cardinality(DOMAIN clients[c].sockets) = Cardinality(DOMAIN clients[c].nsps)
     /\ \A i \in Registered(c) :
          /\ sockets[i].nsp \in DOMAIN clients[c].nsps
          /\ clients[c].nsps[sockets[i].nsp] = i

\* A Client whose default-namespace socket was disconnected alone, and whose
\* other socket is still registered.
C4_Witness ==
  \E c \in ClientIds :
     /\ DOMAIN clients[c].nsps = {"/chat"}
     /\ \E i \in Registered(c) : sockets[i].nsp = "/chat" /\ sockets[i].connected
     /\ \E j \in DOMAIN sockets :
          sockets[j].client = c /\ sockets[j].nsp = "/" /\ sockets[j].disconnected

\* C5: per Client and namespace, at most one accepted Socket is connected.
C5_Claim ==
  \A c \in ClientIds, n \in DOMAIN nsps :
     Cardinality({i \in Approved : /\ sockets[i].client = c
                                   /\ sockets[i].nsp = n
                                   /\ sockets[i].connected}) <= 1

\* C6, as written: after an emit with rooms or the broadcast flag staged the
\* sender is no recipient, and every other member of a targeted room (every
\* other socket of the namespace when no room is staged) is one.
C6_Original ==
  SocketBroadcasts =>
    LET s == sockets[last.s]
        a == adapters[s.nsp][s.adapter]
        others == (IF last.rooms = {} THEN DOMAIN nsps[s.nsp].sockets
                   ELSE Members(a, last.rooms)) \ {s.id}
    IN s.id \notin Recipients /\ others \subseteq Recipients

\* The sockets an EVENT frame can reach: in nsp.connected, on an open
\* connection, which is writable when the packet is volatile.
Reachable(n, flags) ==
  {sid \in DOMAIN nsps[n].connected :
     LET c == sockets[nsps[n].connected[sid]].client
     IN /\ clients[c].readyState = "open"
        /\ "volatile" \in flags => clients[c].writable}

\* C6, amended: for an emit that is broadcast (the event name is not reserved
\* and no callback is given) the sender is no recipient, and every other
\* member of a targeted room (every other socket of nsp.connected when no
\* room is staged) that is in nsp.connected on an open connection, writable
\* when volatile is staged, is one.
C6_BroadcastRecipients ==
  (SocketBroadcasts /\ last.ev \notin events /\ ~last.cb) =>
    LET s == sockets[last.s]
        a == adapters[s.nsp][s.adapter]
        others == (IF last.rooms = {} THEN DOMAIN nsps[s.nsp].connected
                   ELSE Members(a, last.rooms)) \ {s.id}
    IN /\ last.outcome = "broadcast"
       /\ s.id \notin Recipients
       /\ (others \cap Reachable(s.nsp, last.flags)) \subseteq Recipients

\* A sender that is itself in the targeted room, and another member got the
\* event.
C6_Witness ==
  /\ SocketBroadcasts
  /\ last.outcome = "broadcast"
  /\ last.rooms = {"r1"}
  /\ sockets[last.s].id \in Members(adapters[last.nsp][sockets[last.s].adapter], {"r1"})
  /\ Recipients # {}

\* The last emit was given a callback while broadcasting.
CallbackWhileBroadcasting(l) ==
  \/ l.op = "Socket.emit" /\ l.cb /\ (l.rooms # {} \/ "broadcast" \in l.flags)
  \/ l.op = "Namespace.emit" /\ l.cb

\* The step wrote no frame, took no packet id and stored no callback.
NothingSent ==
  /\ wire' = <<>>
  /\ \A n \in DOMAIN nsps : nsps'[n].ids = nsps[n].ids
  /\ \A i \in DOMAIN sockets : sockets'[i].acks = sockets[i].acks
  /\ issued' = issued

\* The reserved event names of the object whose emit was called.
ReservedOf(l) == IF l.op = "Socket.emit" THEN events ELSE nspEvents

\* C7, as written: an emit with a callback while broadcasting throws, writes
\* nothing, takes no id and stores no callback.
C7_Original ==
  [][CallbackWhileBroadcasting(last') =>
       last'.outcome = "throw" /\ NothingSent]_vars

\* C7, amended: the same for an event name that is not reserved.
C7_CallbackRefused ==
  [][(CallbackWhileBroadcasting(last') /\ last'.ev \notin ReservedOf(last')) =>
       last'.outcome = "throw" /\ NothingSent]_vars

\* A Socket.emit with a callback and only the broadcast flag staged, and a
\* Namespace counter that has already handed out an id, has thrown.
C7_Witness ==
  /\ last.op = "Socket.emit"
  /\ last.outcome = "throw"
  /\ last.rooms = {}
  /\ nsps[last.nsp].ids > 0

\* C8: after every Socket.emit the socket's staged rooms and flags are empty.
C8_Claim ==
  last.op = "Socket.emit" =>
    sockets[last.s].rooms = {} /\ sockets[last.s].flags = {}

\* C9: an emit on a socket that disconnect() has closed writes nothing and
\* broadcasts nothing, even with the transport still open.
C9_Claim ==
  (/\ last.op = "Socket.emit"
   /\ sockets[last.s].disconnected
   /\ clients[sockets[last.s].client].readyState = "open")
    => wire = <<>> /\ last.outcome # "broadcast"

\* C10: the ids a namespace hands out are strictly increasing, whichever of
\* its sockets asks; an id is held by one socket at most, and the packet
\* written carries the id just handed out.
C10_IdsIncrease ==
  /\ \A n \in DOMAIN issued :
        \A j, k \in DOMAIN issued[n] : j < k => issued[n][j] < issued[n][k]
  /\ \A i, j \in DOMAIN sockets :
        (i # j /\ sockets[i].nsp = sockets[j].nsp)
          => sockets[i].acks \cap sockets[j].acks = {}
  /\ \A k \in DOMAIN wire :
        (wire[k].type = "EVENT" /\ wire[k].id # -1)
          => wire[k].id = issued[wire[k].nsp][Len(issued[wire[k].nsp])]

\* Two sockets of one namespace each wait for an acknowledgement.
C10_Witness ==
  \E i, j \in DOMAIN sockets :
     /\ i # j
     /\ sockets[i].nsp = sockets[j].nsp
     /\ sockets[i].acks # {}
     /\ sockets[j].acks # {}

\* The step runs the nextTick callback that hands a packet of this type to
\* its socket.
Handles(type) ==
  /\ ticks # <<>>
  /\ ticks' = Tail(ticks)
  /\ Head(ticks).kind = "packet"
  /\ Head(ticks).type = type

\* C11: an ACK packet whose id has an entry in the socket's acks calls that
\* callback with the packet data and removes the entry, and the id was never
\* called before; an ACK with any other id changes nothing; and a callback is
\* called in no other step.
C11_AckOnce ==
  [][/\ Handles("ACK") =>
          LET t == Head(ticks)
          IN /\ IF t.id \in sockets[t.s].acks
                THEN /\ sockets' = [sockets EXCEPT
                          ![t.s].acks = @ \ {t.id},
                          ![t.s].called = Append(@, [id |-> t.id, data |-> t.data])]
                     /\ \A k \in DOMAIN sockets[t.s].called :
                           sockets[t.s].called[k].id # t.id
                ELSE sockets' = sockets
             /\ UNCHANGED <<nsps, adapters, clients, wire, last, issued, closed>>
     /\ \A i \in DOMAIN sockets :
          sockets'[i].called # sockets[i].called
            => Handles("ACK") /\ Head(ticks).s = i]_vars

\* A callback has been called, and a second ACK with its id is about to be
\* handed to the same socket.
C11_Witness ==
  /\ ticks # <<>>
  /\ Head(ticks).kind = "packet"
  /\ Head(ticks).type = "ACK"
  /\ \E k \in DOMAIN sockets[Head(ticks).s].called :
        sockets[Head(ticks).s].called[k].id = Head(ticks).id

\* C12: an ack callback gets at most one ACK packet written, and a call of
\* a callback that has sent changes nothing.
C12_AckSingleShot ==
  \A i \in DOMAIN sockets : \A k \in DOMAIN sockets[i].cbs :
     /\ sockets[i].cbs[k].written <= 1
     /\ sockets[i].cbs[k].sent => SocketAck(Cur, i, k) = Cur
     /\ sockets[i].cbs[k].calls > 0 => sockets[i].cbs[k].sent

\* A callback that was called twice on an open connection and wrote once.
C12_Witness ==
  \E i \in DOMAIN sockets : \E k \in DOMAIN sockets[i].cbs :
     /\ sockets[i].cbs[k].calls = 2
     /\ sockets[i].cbs[k].written = 1

\* The step runs the nextTick callback of Socket.dispatch.
Dispatches ==
  /\ ticks # <<>>
  /\ Head(ticks).kind = "dispatch"
  /\ Tail(ticks) = ticks'

\* C13: when an event middleware has called next(err), the socket sends one
\* ERROR packet with the message on its namespace (written when the
\* connection is open), the event does not reach the listeners, and sockets,
\* namespaces, clients and rooms stay as they are; an event reaches the
\* listeners only when the chain ended without an error; the end of a chain
\* queues one continuation.
C13_EventMiddlewareError ==
  [][/\ (Dispatches /\ Head(ticks).err # NoError) =>
          LET i == Head(ticks).s
              c == sockets[i].client
          IN /\ wire' = IF clients[c].readyState = "open"
                        THEN <<[to |-> c, type |-> "ERROR", nsp |-> sockets[i].nsp,
                                id |-> -1, ev |-> Head(ticks).err]>>
                        ELSE <<>>
             /\ UNCHANGED <<sockets, nsps, clients, adapters>>
     /\ \A i \in DOMAIN sockets :
          /\ sockets'[i].received # sockets[i].received
               => Dispatches /\ Head(ticks).s = i /\ Head(ticks).err = NoError
          /\ Len(sockets'[i].pending) < Len(sockets[i].pending)
               => /\ Len(ticks') = Len(ticks) + 1
                  /\ ticks'[Len(ticks')].kind = "dispatch"
                  /\ ticks'[Len(ticks')].s = i]_vars

\* An ERROR packet with the middleware's message has been written to a
\* socket that is still connected and has received no event.
C13_Witness ==
  \E i \in DOMAIN sockets :
     /\ sockets[i].connected
     /\ sockets[i].fns > 0
     /\ sockets[i].seen > 0
     /\ sockets[i].received = <<>>
     /\ wire = <<[to |-> sockets[i].client, type |-> "ERROR", nsp |-> sockets[i].nsp,
                  id |-> -1, ev |-> "forbidden"]>>

\* The sockets some map of a namespace or of a client holds.
Filed ==
  UNION {{nsps[n].sockets[k] : k \in DOMAIN nsps[n].sockets}
           \cup {nsps[n].connected[k] : k \in DOMAIN nsps[n].connected} :
         n \in DOMAIN nsps}
    \cup UNION {{clients[c].sockets[k] : k \in DOMAIN clients[c].sockets}
                  \cup {clients[c].nsps[k] : k \in DOMAIN clients[c].nsps} :
                c \in ClientIds}

\* C14: a socket whose connect middleware has called next(err) is in no map
\* of its namespace or client and has fired no connect event; its id is in
\* the adapter only when another accepted socket carries the same id; the
\* continuation of the rejected CONNECT writes exactly one ERROR packet with
\* the message on the socket's namespace when the connection is open, nothing
\* when it is not, and changes no namespace, adapter or client.
C14_ConnectRejected ==
  [][\A i \in DOMAIN sockets :
       sockets[i].rejection # NoError =>
         /\ i \notin Filed'
         /\ sockets'[i].emitted = <<>>
         /\ sockets[i].id \in DOMAIN adapters'[sockets[i].nsp][sockets[i].adapter].sids
              => \E j \in Approved' :
                    j # i /\ sockets[j].id = sockets[i].id /\ sockets[j].nsp = sockets[i].nsp
         /\ (sockets[i].phase = "tick" /\ sockets'[i].phase # "tick") =>
              LET c == sockets[i].client
              IN /\ sockets' = [sockets EXCEPT ![i].phase =
                                   IF clients[c].readyState = "open"
                                   THEN "rejected" ELSE "abandoned"]
                 /\ wire' = IF clients[c].readyState = "open"
                            THEN <<[to |-> c, type |-> "ERROR",
                                    nsp |-> sockets[i].nsp, id |-> -1,
                                    ev |-> sockets[i].rejection]>>
                            ELSE <<>>
                 /\ UNCHANGED <<nsps, adapters, clients>>]_vars

\* The peer has just got the ERROR packet of a CONNECT to /chat that the
\* middleware rejected.
C14_Witness ==
  \E i \in DOMAIN sockets :
     /\ sockets[i].phase = "rejected"
     /\ sockets[i].nsp = "/chat"
     /\ wire = <<[to |-> sockets[i].client, type |-> "ERROR", nsp |-> "/chat",
                  id |-> -1, ev |-> "forbidden"]>>

\* Nothing of connection c is still on its way: no callback is queued and
\* no connect middleware of its sockets is running.
Settled(c) ==
  /\ ticks = <<>>
  /\ \A i \in DOMAIN sockets :
        sockets[i].client = c => sockets[i].phase \notin {"mw", "tick"}

\* C15: on an open connection, once nothing is on its way, every registered
\* namespace that was asked for after a rejection on another namespace, and
\* whose middleware rejected nothing of this connection, has had a socket of
\* the connection accepted and connected.
C15_Claim ==
  \A c \in ClientIds : \A n \in clients[c].late :
     (/\ clients[c].readyState = "open"
      /\ Settled(c)
      /\ \A i \in DOMAIN sockets :
            (sockets[i].client = c /\ sockets[i].nsp = n)
               => sockets[i].rejection = NoError)
       => \E i \in DOMAIN sockets :
             /\ sockets[i].client = c
             /\ sockets[i].nsp = n
             /\ "connect" \in {sockets[i].emitted[k] : k \in DOMAIN sockets[i].emitted}

\* C16: a socket of a non-default namespace is constructed only when the
\* connection has an accepted default socket, constructed earlier, filed
\* under "/"; a CONNECT for a registered non-default name that arrives
\* without one goes to the end of connectBuffer and constructs nothing; the
\* step that accepts the default socket constructs one socket per buffered
\* name, in the order of the buffer, and leaves the buffer empty.
C16_BufferedUntilDefault ==
  [][\A c \in ClientIds :
       LET buf == clients[c].connectBuffer
           new == {i \in DOMAIN sockets' : i > Len(sockets) /\ sockets'[i].client = c}
           approves == \E j \in DOMAIN sockets :
                          /\ sockets[j].client = c
                          /\ sockets[j].nsp = "/"
                          /\ sockets[j].phase = "tick"
                          /\ sockets'[j].phase = "approved"
       IN /\ \A i \in new :
               sockets'[i].nsp # "/" =>
                  /\ "/" \in DOMAIN clients'[c].nsps
                  /\ clients'[c].nsps["/"] <= Len(sockets)
                  /\ sockets'[clients'[c].nsps["/"]].phase = "approved"
          /\ (~approves /\ "/" \notin DOMAIN clients[c].nsps) =>
               /\ \A i \in new : sockets'[i].nsp = "/"
               /\ \/ clients'[c].connectBuffer = buf
                  \/ \E n \in DOMAIN nsps \ {"/"} :
                        clients'[c].connectBuffer = Append(buf, n)
          /\ approves =>
               /\ clients'[c].connectBuffer = <<>>
               /\ Len(sockets') = Len(sockets) + Len(buf)
               /\ \A k \in DOMAIN buf :
                     /\ sockets'[Len(sockets) + k].nsp = buf[k]
                     /\ sockets'[Len(sockets) + k].client = c]_vars

\* Two CONNECTs that waited, for /news and then /chat, have just been
\* replayed in that order behind the accepted default socket.
C16_Witness ==
  /\ Len(sockets) = 3
  /\ sockets[1].nsp = "/" /\ sockets[1].phase = "approved"
  /\ sockets[2].nsp = "/news"
  /\ sockets[3].nsp = "/chat"
  /\ clients["c1"].connectBuffer = <<>>
  /\ wire # <<>>

\* C17: the step in which the default socket of a connection is rejected
\* writes, for every entry of connectBuffer, an ERROR packet on the buffered
\* name with the data "Invalid namespace".
C17_Claim ==
  [][\A c \in ClientIds :
       (\E j \in DOMAIN sockets :
           /\ sockets[j].client = c
           /\ sockets[j].nsp = "/"
           /\ sockets[j].phase = "tick"
           /\ sockets'[j].phase = "rejected")
         => \A k \in DOMAIN clients[c].connectBuffer :
               \E f \in DOMAIN wire' :
                  wire'[f] = [to |-> c, type |-> "ERROR",
                              nsp |-> clients[c].connectBuffer[k], id |-> -1,
                              ev |-> "Invalid namespace"]]_vars

\* The ERROR packet of a name no namespace answers for.
InvalidNamespace(c, name) ==
  [to |-> c, type |-> "ERROR", nsp |-> name, id |-> -1, ev |-> "Invalid namespace"]

\* C18: a check starts at the first matcher, for a name that is not
\* registered; the matcher asked either accepts, and then the check ends
\* with a child created by that parent and no ERROR, or refuses, and then
\* the next matcher in insertion order is asked, or, after the last one, the
\* check ends with exactly one ERROR "Invalid namespace" on the name (when
\* the connection is open) and no namespace or socket created.  Without any
\* parent namespace Client.connect writes that ERROR at once and changes
\* nothing else.  No other step writes this ERROR or creates a child.
C18_MatchersInOrder ==
  [][LET P == server.parentNsps
         old == server.checks
         new == server'.checks
         ends == {k \in Asking : new[k].state = "refused"}
     IN /\ Len(new) >= Len(old)
        /\ \A k \in DOMAIN old :
              IF old[k].state # "asking" THEN new[k] = old[k]
              ELSE \/ new[k] = old[k]
                   \/ /\ new[k] = [old[k] EXCEPT !.state = "accepted"]
                      /\ server'.created = server.created + 1
                      /\ old[k].name \in DOMAIN nsps'
                      /\ \E x \in DOMAIN server'.parentNsps[old[k].at].children :
                            server'.parentNsps[old[k].at].children[x] = old[k].name
                      /\ \A f \in DOMAIN wire' : wire'[f].ev # "Invalid namespace"
                   \/ /\ new[k] = [old[k] EXCEPT !.at = @ + 1]
                      /\ old[k].at < Len(P)
                      /\ wire' = <<>>
                      /\ server'.created = server.created
                      /\ UNCHANGED <<nsps, sockets, adapters, clients>>
                   \/ /\ new[k] = [old[k] EXCEPT !.state = "refused"]
                      /\ old[k].at = Len(P)
                      /\ wire' = IF clients[old[k].c].readyState = "open"
                                 THEN <<InvalidNamespace(old[k].c, old[k].name)>>
                                 ELSE <<>>
                      /\ server'.created = server.created
                      /\ UNCHANGED <<nsps, sockets, adapters, clients>>
        /\ \A k \in DOMAIN new \ DOMAIN old :
              /\ k = Len(old) + 1
              /\ new[k].at = 1
              /\ new[k].state = "asking"
              /\ new[k].name \notin DOMAIN nsps
              /\ P # <<>>
              /\ wire' = <<>>
              /\ UNCHANGED <<nsps, sockets, adapters>>
        /\ server'.created # server.created =>
              \E k \in Asking : new[k].state = "accepted"
        /\ \A f \in DOMAIN wire' :
              (wire' # wire /\ wire'[f].ev = "Invalid namespace") =>
                 \/ \E k \in ends : wire'[f] = InvalidNamespace(old[k].c, old[k].name)
                 \/ /\ P = <<>>
                    /\ wire'[f].nsp \notin DOMAIN nsps
                    /\ UNCHANGED <<nsps, sockets, adapters, clients, server>>
        /\ P = <<>> =>
              \A c \in ClientIds : \A name \in DynNames \ DOMAIN nsps :
                 ClientConnect(Cur, c, name, NoQuery) =
                    [Cur EXCEPT !.wire =
                        IF clients[c].readyState = "open"
                        THEN Append(wire, InvalidNamespace(c, name)) ELSE wire]]_vars

\* The second of two matchers has just refused a name the first had refused:
\* the check has ended and the peer has its ERROR packet.
C18_Witness ==
  \E k \in DOMAIN server.checks :
     /\ server.checks[k].state = "refused"
     /\ server.checks[k].at = 2
     /\ wire = <<InvalidNamespace(server.checks[k].c, server.checks[k].name)>>
     /\ server.checks[k].name \notin DOMAIN nsps

\* The names some parent namespace has created a child for.
Children ==
  UNION {{server.parentNsps[p].children[x] :
            x \in DOMAIN server.parentNsps[p].children} :
         p \in DOMAIN server.parentNsps}

\* C19: in every state, a CONNECT for a name that a parent namespace has
\* created a child for takes the branch of the registered names: handled
\* now, for any connection, it starts no check, asks no matcher, creates no
\* child and leaves the registry and the adapters as they are; it only
\* constructs a socket of that namespace or puts the name in connectBuffer.
C19_StaticLookup ==
  \A c \in ClientIds : \A name \in Children :
     LET st == ClientConnect(Cur, c, name, NoQuery)
     IN /\ name \in DOMAIN nsps
        /\ st.server = server
        /\ st.nsps = nsps
        /\ st.adapters = adapters
        /\ st.wire = wire
        /\ \/ /\ Len(st.sockets) = Len(sockets) + 1
              /\ st.sockets[Len(st.sockets)].nsp = name
              /\ st.clients = clients
           \/ /\ st.sockets = sockets
              /\ st.clients =
                   [clients EXCEPT ![c].connectBuffer = Append(@, name)]

\* A second CONNECT for /dyn, sent after the only check had created the
\* child, has got its socket: one check, one child, two sockets of /dyn.
C19_Witness ==
  /\ "/dyn" \in Children
  /\ Len(server.checks) = 1
  /\ server.created = 1
  /\ Cardinality({i \in DOMAIN sockets : sockets[i].nsp = "/dyn"}) = 2

\* C20: the step that accepts the default socket of a connection writes
\* the CONNECT packet of "/" to the peer exactly when the handshake of that
\* connection did not carry it.
C20_Claim ==
  [][\A j \in DOMAIN sockets :
       (/\ sockets[j].nsp = "/"
        /\ sockets[j].phase = "tick"
        /\ sockets'[j].phase = "approved")
         => LET c == sockets[j].client
                written == {f \in DOMAIN wire' :
                              /\ wire'[f].to = c
                              /\ wire'[f].type = "CONNECT"
                              /\ wire'[f].nsp = "/"}
            IN Cardinality(written) + (IF c \in server.piggy THEN 1 ELSE 0) = 1]_vars

\* The EVENT frames the last step wrote for the socket id sid of namespace n.
FramesFor(n, sid) ==
  {k \in DOMAIN wire :
     wire[k].type = "EVENT" /\ wire[k].nsp = n /\ SocketIdOf(n, wire[k].to) = sid}

C22_ReservedLocal ==
  [][(last'.op = "Socket.emit" /\ last'.ev \in ReservedNames) =>
       /\ last'.outcome = "local"
       /\ wire' = <<>>
       /\ UNCHANGED <<nsps, adapters, issued, clients, ticks>>
       /\ \A i \in DOMAIN sockets : sockets'[i].acks = sockets[i].acks]_vars

\* socket.to("r1").emit("disconnect", cb) has just run on a socket whose
\* room r1 has another member; only the local listeners were called.
C22_Witness ==
  /\ last.op = "Socket.emit"
  /\ last.ev = "disconnect"
  /\ last.cb
  /\ last.rooms = {"r1"}
  /\ last.outcome = "local"
  /\ Members(adapters["/"][1], {"r1"}) \ {sockets[last.s].id} # {}

\* C23: a Namespace.emit never writes a frame whose event name is one of
\* the six reserved names.
C23_Claim ==
  [][last'.op = "Namespace.emit" =>
       \A f \in DOMAIN wire' : wire'[f].ev \notin ReservedNames]_vars

\* The sockets of a child namespace that a frame of the step went to.
RecipientsIn(n) ==
  {SocketIdOf(n, wire[f].to) : f \in {g \in DOMAIN wire : wire[g].nsp = n}}

\* C24: after ParentNamespace.emit of a broadcast event with staged rooms R
\* and flags F, in every child exactly the sockets in the rooms R of that
\* child's adapter (all its sockets when R is empty) have been written one
\* frame, and the parent's staged rooms and flags are empty.
C24_Claim ==
  (last.op = "ParentNamespace.emit" /\ last.outcome = "children"
     /\ last.ev \notin nspEvents) =>
    LET P == server.parentNsps[last.s]
    IN /\ P.rooms = {} /\ P.flags = {}
       /\ \A x \in DOMAIN P.children :
             LET n == P.children[x]
                 a == adapters[n][nsps[n].adapter]
                 members == IF last.rooms = {} THEN DOMAIN a.sids
                            ELSE Members(a, last.rooms)
                 targets == IF "volatile" \in last.flags
                            THEN members \cap Reachable(n, last.flags)
                            ELSE members
             IN /\ RecipientsIn(n) = targets
                /\ \A sid \in targets : Cardinality(FramesFor(n, sid)) = 1

\* The socket id is in some room of some adapter.
InSomeRoom(as, sid) ==
  \E n \in DOMAIN as : \E k \in DOMAIN as[n] :
     \/ sid \in DOMAIN as[n][k].sids
     \/ \E r \in DOMAIN as[n][k].rooms : sid \in as[n][k].rooms[r]

\* C25: the step in which the transport of a Client closes (or the Client
\* closes it) leaves every Socket that was registered in the Client
\* disconnected, absent from its Namespace's `sockets` and `connected` and
\* from every room of every adapter, leaves the Client's `sockets` and `nsps`
\* empty and the Client detached from the connection and the decoder; and a
\* detached Client stays detached, with both maps empty, in every later step.
C25_TransportClosed ==
  [][\A c \in ClientIds :
       /\ (clients[c].attached /\ (clients'[c].readyState = "closed" \/ ~clients'[c].attached)) =>
            /\ ~clients'[c].attached
            /\ clients'[c].sockets = EmptyMap
            /\ clients'[c].nsps = EmptyMap
            /\ \A sid \in DOMAIN clients[c].sockets :
                  LET i == clients[c].sockets[sid]
                      n == sockets[i].nsp
                  IN /\ ~sockets'[i].connected /\ sockets'[i].disconnected
                     /\ sid \notin DOMAIN nsps'[n].sockets
                     /\ sid \notin DOMAIN nsps'[n].connected
                     /\ ~InSomeRoom(adapters', sid)
       /\ (~clients[c].attached /\ clients[c].readyState # "none") =>
            /\ ~clients'[c].attached
            /\ clients'[c].sockets = EmptyMap
            /\ clients'[c].nsps = EmptyMap
            /\ clients'[c].connectBuffer = clients[c].connectBuffer]_vars

\* The transport of a connection has closed while two sockets were
\* registered in its Client, one of them in room r1.
C25_Witness ==
  /\ clients["c1"].readyState = "closed"
  /\ \E i, j \in DOMAIN sockets :
       /\ i # j
       /\ sockets[i].client = "c1" /\ sockets[j].client = "c1"
       /\ sockets[i].emitted = <<"connect", "disconnecting", "disconnect">>
       /\ sockets[j].emitted = <<"connect", "disconnecting", "disconnect">>
       /\ "r1" \in sockets[i].seenRooms
       /\ sockets[i].seenGone /\ sockets[j].seenGone
  /\ ticks = <<>>

\* The local events socket i has emitted so far.
Emitted(i) == {sockets[i].emitted[k] : k \in DOMAIN sockets[i].emitted}

\* What Client.onerror leaves, from the state `Cur`, for connection c.
ErrorHandled(c, st, err) ==
  /\ \A i \in Registered(c) :
        st.sockets[i] = [sockets[i] EXCEPT !.emitted = Append(@, "error"),
                                           !.errors = Append(@, err)]
  /\ \A i \in DOMAIN sockets \ Registered(c) : st.sockets[i] = sockets[i]
  /\ st.clients[c] = [clients[c] EXCEPT !.readyState = "closing"]
  /\ \A d \in ClientIds \ {c} : st.clients[d] = clients[d]
  /\ st.nsps = nsps /\ st.adapters = adapters /\ st.ticks = ticks
  /\ st.wire = wire /\ st.server = server

\* C26: when the decoder throws on data of an open connection c, or c
\* reports an error, every socket registered in c's Client has onerror called
\* once, the close of c's connection is asked for, and nothing else changes;
\* every socket that was told the error later emits `disconnect`; and the
\* close of c's transport changes no socket and no Client of another
\* connection.
C26_ErrorTeardown ==
  /\ [](\A c \in ClientIds : Receiving(c) =>
          /\ ErrorHandled(c, ClientOndata(Cur, c, TRUE, "", "", -1, ""), DecoderError)
          /\ ErrorHandled(c, ClientOnerror(Cur, c, TransportError), TransportError))
  /\ \A i \in 1..MaxSockets :
        []((i \in DOMAIN sockets /\ "error" \in Emitted(i))
             => <>(i \in DOMAIN sockets /\ "disconnect" \in Emitted(i)
                     /\ ~sockets[i].connected))
  /\ [][\A c \in ClientIds :
          (clients[c].readyState # "closed" /\ clients'[c].readyState = "closed") =>
             /\ \A d \in ClientIds \ {c} : clients'[d] = clients[d]
             /\ \A i \in DOMAIN sockets :
                   sockets[i].client # c => sockets'[i] = sockets[i]]_vars

\* Both sockets of a connection were told an error, and both have been
\* closed by the close of the transport that followed.
C26_Witness ==
  /\ clients["c1"].readyState = "closed"
  /\ \E i, j \in DOMAIN sockets :
       /\ i # j
       /\ sockets[i].emitted = <<"connect", "error", "disconnecting", "disconnect">>
       /\ sockets[j].emitted = <<"connect", "error", "disconnecting", "disconnect">>
       /\ sockets[i].errors = <<DecoderError>> /\ sockets[j].errors = <<DecoderError>>

\* How many times socket i has emitted `disconnect`.
Disconnects(s) == Len(SelectSeq(s.emitted, LAMBDA ev : ev = "disconnect"))

\* C27: the step of Server.close runs the close sequence, with the reason
\* "server shutting down", on every socket filed in the default namespace,
\* before the engine is closed; a socket emits `disconnect` at most once, and
\* no later step (the close of its transport) changes what it has emitted or
\* the reason; the callback is invoked only after the engine was closed and
\* no socket is filed in the default namespace any more.
C27_Shutdown ==
  [][/\ (~closed /\ closed') =>
          /\ \A sid \in DOMAIN nsps["/"].sockets :
                LET i == nsps["/"].sockets[sid]
                IN /\ sockets'[i].emitted =
                        sockets[i].emitted \o <<"disconnecting", "disconnect">>
                   /\ sockets[i].listener =>
                        /\ sockets'[i].reason = "server shutting down"
                        /\ ~sockets'[i].seenClosed
                   /\ ~sockets'[i].connected
          /\ nsps'["/"].sockets = EmptyMap
          /\ \A c \in ClientIds : clients'[c].readyState # "open"
          /\ server'.cb # "called"
     /\ \A i \in DOMAIN sockets :
          /\ Disconnects(sockets'[i]) <= 1
          /\ sockets[i].reason # "" =>
                /\ sockets'[i].emitted = sockets[i].emitted
                /\ sockets'[i].reason = sockets[i].reason
     /\ server'.cb = "called" =>
          /\ closed
          /\ server'.cbSaw = [closed |-> TRUE, sockets |-> {}]
          /\ server.cb \in {"pending", "called"}]_vars

\* The server was closed with a callback while two sockets were filed in the
\* default namespace; both were closed by it, their transports have closed
\* since, and the callback has been invoked.
C27_Witness ==
  /\ closed
  /\ server.cb = "called"
  /\ \E i, j \in DOMAIN sockets :
       /\ i # j
       /\ sockets[i].reason = "server shutting down"
       /\ sockets[j].reason = "server shutting down"
       /\ sockets[i].emitted = <<"connect", "disconnecting", "disconnect">>
       /\ sockets[j].emitted = <<"connect", "disconnecting", "disconnect">>
  /\ \A c \in ClientIds : clients[c].readyState = "closed"

\* What Client.packet does with an EVENT packet for connection c from the
\* state `Cur`: one frame more on the wire of an open connection (a writable
\* one, when the packet is volatile), else nothing at all.
PacketWritten(c, vol) ==
  LET pkt == Packet("EVENT", "/", -1, "x")
      st == ClientPacket(Cur, c, pkt, [preEncoded |-> FALSE, volatile |-> vol])
  IN IF clients[c].readyState = "open" /\ (vol => clients[c].writable)
     THEN st = [Cur EXCEPT !.wire = Append(@, [to |-> c, type |-> "EVENT",
                                              nsp |-> "/", id |-> -1, ev |-> "x"])]
     ELSE st = Cur

\* C28: in every reachable state Client.packet writes the frame when the
\* connection is open (and writable, for a volatile packet) and changes
\* nothing otherwise; and a Socket.emit to the socket's own peer puts its
\* frame on the wire exactly under that condition, leaving the Client, the
\* tick queue, the namespaces and the adapters as they were.
C28_Packet ==
  /\ [](\A c \in ClientIds, vol \in BOOLEAN : PacketWritten(c, vol))
  /\ [][(last'.op = "Socket.emit" /\ last'.outcome = "packet") =>
          LET c == sockets[last'.s].client
              vol == "volatile" \in last'.flags
          IN /\ IF clients[c].readyState = "open" /\ (vol => clients[c].writable)
                THEN /\ Len(wire') = 1
                     /\ wire'[1].to = c /\ wire'[1].ev = last'.ev
                ELSE wire' = <<>>
             /\ UNCHANGED <<clients, ticks, nsps, adapters, closed, server>>]_vars

\* A volatile emit was dropped because the open connection was not
\* writable.
C28_Witness ==
  /\ last.op = "Socket.emit" /\ last.outcome = "packet"
  /\ "volatile" \in last.flags
  /\ clients[sockets[last.s].client].readyState = "open"
  /\ ~clients[sockets[last.s].client].writable
  /\ wire = <<>>

\* C29: once the server is attached, the engine has the CONNECT packet of
\* "/" as its initial packet exactly when the default namespace has no
\* connect middleware.
C29_InitialPacket ==
  server.attached => (server.initialPacket <=> nsps["/"].fns = 0)

\* A connection got the initial packet with its handshake, and a
\* middleware put on "/" afterwards has removed the packet from the engine.
C29_Witness ==
  /\ server.attached
  /\ server.piggy # {}
  /\ nsps["/"].fns > 0
  /\ ~server.initialPacket

\* C30: when the continuation of Namespace.add runs for a socket whose
\* connection is not open, whether its middleware accepted or rejected, the
\* step changes nothing but the socket's phase: no map of a namespace,
\* adapter or Client, no event, no frame; and the abandoned socket is never
\* filed, never emits and never changes afterwards.
C30_Abandoned ==
  [][\A i \in DOMAIN sockets :
       /\ (/\ sockets[i].phase = "tick" /\ sockets'[i].phase # "tick"
           /\ clients[sockets[i].client].readyState # "open") =>
             /\ sockets' = [sockets EXCEPT ![i].phase = "abandoned"]
             /\ wire' = <<>>
             /\ UNCHANGED <<nsps, adapters, clients, issued, server>>
       /\ sockets[i].phase = "abandoned" =>
             /\ sockets'[i] = sockets[i]
             /\ sockets[i].emitted = <<>>
             /\ i \notin Filed']_vars

\* A socket whose middleware accepted it after its connection had closed
\* has been abandoned.
C30_Witness ==
  \E i \in DOMAIN sockets :
     /\ sockets[i].phase = "abandoned"
     /\ sockets[i].rejection = NoError
     /\ nsps[sockets[i].nsp].fns > 0
     /\ clients[sockets[i].client].readyState = "closed"

\* A socket whose middleware rejected it after its connection had closed
\* has been abandoned.
C30_WitnessRejected ==
  \E i \in DOMAIN sockets :
     /\ sockets[i].phase = "abandoned"
     /\ sockets[i].rejection # NoError

\* C31: a socket for which the namespace events have fired has had `connect`
\* then `connection`, once each, and its `connect` listener saw it filed in
\* the namespace's `sockets` and `connected`, in the room of its own id and
\* in its Client's `sockets` and `nsps`; the events fire in the step that
\* approves the socket and in no other, and for no socket that is not
\* approved.
C31_ConnectAfterRegistration ==
  [][\A i \in DOMAIN sockets' :
       LET new == sockets'[i]
           old == IF i \in DOMAIN sockets THEN sockets[i]
                  ELSE [new EXCEPT !.phase = "new"]
       IN /\ new.phase = "approved" <=> new.announced # <<>>
          /\ new.announced # <<>> =>
                /\ new.announced = <<"connect", "connection">>
                /\ new.seenFiled
          /\ (old.phase # "approved" /\ new.phase = "approved") =>
                /\ old.phase = "tick"
                /\ old.announced = <<>>
                /\ FiledAll(Cur, i)' ]_vars

\* The socket of a buffered CONNECT has been approved after middleware on
\* its namespace let it through, and its connect listener saw it filed.
C31_Witness ==
  \E i \in DOMAIN sockets :
     /\ sockets[i].nsp = "/chat"
     /\ nsps["/chat"].fns > 0
     /\ sockets[i].announced = <<"connect", "connection">>
     /\ sockets[i].seenFiled
     /\ sockets[i].connected

\* ------------------------------------------------------------------ SpecChain
\* Connections arriving while the application installs connect middleware
\* on the default namespace, one after the other.
NextChain ==
  \/ \E c \in ClientIds : InOrder(c) /\ OnConnection(c)
  \/ CallUseAgain("/")
  \/ \E i \in DOMAIN sockets, err \in Errors : MiddlewareNext(i, err)
  \/ Tick
  \/ \E c \in ClientIds : OnTransportClose(c)
  \/ Return

SpecChain == Init /\ [][NextChain]_vars

\* C32: the connect middleware run for a socket is the list installed when
\* Namespace.add was entered.  A socket enters with the whole list of that
\* moment, so with every middleware installed before; a use() while the chain
\* runs leaves the in-flight socket's chain alone; the chain goes down one
\* middleware at a time and the socket is let through only by the last one
\* of its own chain.
C32_ChainSnapshot ==
  [][\A i \in DOMAIN sockets' :
       LET new == sockets'[i]
       IN IF i \notin DOMAIN sockets
          THEN /\ new.chain = nsps[new.nsp].fns
               /\ new.mw = new.chain
               /\ nsps'[new.nsp].fns = nsps[new.nsp].fns
          ELSE LET old == sockets[i]
               IN /\ nsps'[old.nsp].fns # nsps[old.nsp].fns =>
                       new = [old EXCEPT !.late = new.late]
                  /\ old.phase = "mw" =>
                       /\ new.phase \in {"mw", "tick"}
                       /\ new.phase = "mw" =>
                            /\ new.chain = old.chain
                            /\ new.mw \in {old.mw, old.mw - 1}
                            /\ new.mw >= 1 /\ new.mw <= new.chain
                       /\ (new.phase = "tick" /\ new.rejection = NoError) =>
                            old.mw = 1
                  /\ old.phase # "mw" => old.mw = 0 /\ new.late = old.late
    ]_vars

\* Two middleware are installed; the first socket, in flight when the second
\* was installed, came through after its one middleware, and the second
\* socket is in the second middleware of its chain of two.
C32_Witness ==
  /\ nsps["/"].fns = 2
  /\ Len(sockets) = 2
  /\ sockets[1].late = 1 /\ sockets[1].phase = "approved"
  /\ sockets[1].rejection = NoError
  /\ sockets[2].chain = 2 /\ sockets[2].phase = "mw" /\ sockets[2].mw = 1
  /\ sockets[2].late = 0

\* C33: the listeners of a socket are called for its events in the order the
\* packets were decoded, also when event middleware is slower for the first.
\* Events with an id carry their place of arrival (the place of their ack
\* callback in `cbs`): the places in the log of deliveries go up.
C33_Claim ==
  \A i \in DOMAIN sockets :
    \A a, b \in DOMAIN sockets[i].received :
      (a < b /\ sockets[i].received[a].cb # 0 /\ sockets[i].received[b].cb # 0)
        => sockets[i].received[a].cb < sockets[i].received[b].cb

\* The reasons Client.onclose is called with.
CloseReasons == {"transport close", "forced server close"}

\* C34: closing a Client is idempotent.  In every state after Client.onclose
\* has run for a connection, another run of Client.onclose, with any reason,
\* changes nothing: no socket event, no packet, no map of a namespace, an
\* adapter or a Client.  And the close event the transport delivers after
\* Client.close changes the connection's readyState and nothing else.
C34_OncloseIdempotent ==
  /\ [](\A c \in ClientIds :
          (clients[c].readyState # "none" /\ ~clients[c].attached) =>
             \A reason \in CloseReasons : ClientOnclose(Cur, c, reason) = Cur)
  /\ [][\A c \in ClientIds :
          (/\ clients[c].readyState # "none" /\ ~clients[c].attached
           /\ clients'[c].readyState # clients[c].readyState) =>
             /\ clients' = [clients EXCEPT ![c].readyState = "closed"]
             /\ sockets' = sockets /\ nsps' = nsps /\ adapters' = adapters
             /\ wire' = <<>> /\ ticks' = ticks]_vars

\* Client.close has run for a connection with two sockets, one of them in
\* room r1: both have emitted disconnect, and the close event of the
\* transport is still to come.
C34_Witness ==
  /\ clients["c1"].readyState = "closing" /\ ~clients["c1"].attached
  /\ \E i, j \in DOMAIN sockets :
       /\ i # j
       /\ sockets[i].client = "c1" /\ sockets[j].client = "c1"
       /\ sockets[i].emitted = <<"connect", "disconnecting", "disconnect">>
       /\ sockets[j].emitted = <<"connect", "disconnecting", "disconnect">>
       /\ "r1" \in sockets[i].seenRooms

\* ------------------------------------------------------------------ SpecLate
\* One connection whose peer sends events to its socket of the default
\* namespace, which runs event middleware, and then leaves the namespace, or
\* is disconnected by the application, or loses its transport.  The nextTick
\* queue is drained before the event loop starts anything else.
NextLate ==
  \/ OnConnection("c1")
  \/ ticks = <<>> /\ \E id \in {-1, 0}, ev \in InboundEvents : OnEvent("c1", "/", id, ev)
  \/ ticks = <<>> /\ OnPacket("c1", "/", "DISCONNECT", -1, "")
  \/ Tick
  \/ ticks = <<>> /\ \E i \in DOMAIN sockets : CallSocketUse(i)
  \/ ticks = <<>> /\ \E i \in DOMAIN sockets : CallDisconnect(i, FALSE)
  \/ ticks = <<>> /\ \E i \in DOMAIN sockets : \E k \in DOMAIN sockets[i].pending :
                      \E err \in Errors : EventMiddlewareNext(i, k, err)
  \/ ticks = <<>> /\ \E i \in DOMAIN sockets : \E k \in DOMAIN sockets[i].cbs : CallAck(i, k)
  \/ ticks = <<>> /\ OnTransportClose("c1")
  \/ Return

SpecLate == Init /\ [][NextLate]_vars

\* C35: once a socket has emitted disconnect, no event is delivered to its
\* listeners any more, no ERROR packet is written for it, and no ACK packet
\* is written for an event that had not been delivered.
C35_Claim ==
  [][\A i \in DOMAIN sockets :
       LET s == sockets[i]
       IN (\E j \in DOMAIN s.emitted : s.emitted[j] = "disconnect") =>
            /\ sockets'[i].received = s.received
            /\ \A f \in DOMAIN wire' :
                 ~(wire'[f].type = "ERROR" /\ wire'[f].to = s.client
                   /\ wire'[f].nsp = s.nsp)
            /\ \A k \in DOMAIN s.cbs :
                 (\A j \in DOMAIN s.received : s.received[j].cb # k) =>
                    sockets'[i].cbs[k].written = s.cbs[k].written]_vars

\* An event is delivered in a step taken after disconnect.
C35_DeliveredLate ==
  [][\A i \in DOMAIN sockets :
       (\E j \in DOMAIN sockets[i].emitted : sockets[i].emitted[j] = "disconnect")
         => sockets'[i].received = sockets[i].received]_vars

\* An ACK packet is written, after disconnect, for an event that waits in
\* the middleware.
C35_AckedLate ==
  [][\A i \in DOMAIN sockets :
       (\E j \in DOMAIN sockets[i].emitted : sockets[i].emitted[j] = "disconnect")
         => \A k \in DOMAIN sockets[i].cbs :
              (\A j \in DOMAIN sockets[i].received : sockets[i].received[j].cb # k)
                => sockets'[i].cbs[k].written = sockets[i].cbs[k].written]_vars

\* An ERROR packet is written for a socket after its disconnect.
C35_ErrorLate ==
  [][\A i \in DOMAIN sockets :
       (\E j \in DOMAIN sockets[i].emitted : sockets[i].emitted[j] = "disconnect")
         => \A f \in DOMAIN wire' :
              ~(wire'[f].type = "ERROR" /\ wire'[f].to = sockets[i].client
                /\ wire'[f].nsp = sockets[i].nsp)]_vars

\* ------------------------------------------------------------------ SpecRace
\* Two connections whose peers ask for the same name that only a parent
\* namespace can accept; the matcher answers when it likes, and transports
\* close.
NextRace ==
  \/ \E c \in ClientIds : InOrder(c) /\ OnConnection(c)
  \/ \E c \in ClientIds : OnDynConnectAny(c, "/dyn")
  \/ \E k \in DOMAIN server.checks, allow \in BOOLEAN : MatcherAnswer(k, allow)
  \/ Len(server.parentNsps) = 0 /\ CallOfMatcher
  \/ Tick
  \/ \E c \in ClientIds : OnTransportClose(c)
  \/ Return

SpecRace == Init /\ [][NextRace]_vars

\* The checks that ended with createChild(name): one Namespace each.
CreatedFor(name) ==
  {k \in DOMAIN server.checks :
     server.checks[k].name = name /\ server.checks[k].state = "accepted"}

\* C36: at most one Namespace is ever created for a dynamic name, and every
\* socket of that name belongs to the Namespace the registry maps the name
\* to: it holds that Namespace's adapter.
C36_Claim ==
  \A name \in DynNames :
     /\ Cardinality(CreatedFor(name)) <= 1
     /\ \A i \in DOMAIN sockets :
          sockets[i].nsp = name =>
             /\ name \in DOMAIN nsps
             /\ sockets[i].adapter = nsps[name].adapter

\* Two Namespaces were created for /dyn for two connections, and the socket
\* of the first connection holds the adapter of the replaced one.
C36_Stranded ==
  ~(/\ Cardinality(CreatedFor("/dyn")) = 2
    /\ \E i, j \in DOMAIN sockets :
         /\ sockets[i].nsp = "/dyn" /\ sockets[j].nsp = "/dyn"
         /\ sockets[i].client # sockets[j].client
         /\ sockets[i].phase = "approved" /\ sockets[j].phase = "approved"
         /\ sockets[i].adapter # nsps["/dyn"].adapter
         /\ sockets[j].adapter = nsps["/dyn"].adapter)

\* ------------------------------------------------------------------ SpecGone
\* SpecClose with the scheduling the event loop guarantees: a handler that
\* has started returns, and a callback in the nextTick queue is run.  What
\* peers, transports and the application do is not forced.
TickCanRun == Quiet /\ ticks # <<>>

\* The step Tick takes: the head of the queue is gone, the rest is kept and
\* what the callback deferred is behind it.
TickRuns ==
  /\ TickCanRun
  /\ Len(ticks') >= Len(ticks) - 1
  /\ SubSeq(ticks', 1, Len(ticks) - 1) = Tail(ticks)
  /\ ticks' # ticks

SpecGone ==
  /\ Init /\ [][NextClose]_vars
  /\ WF_vars(Return)
  /\ (<>[](~TickCanRun) \/ []<><<TickRuns>>_vars)

\* C37: every socket whose namespace `connect` has fired emits disconnect,
\* and is no longer connected, at some time after the transport of its
\* Client has closed.
C37_Claim ==
  \A i \in 1 .. MaxSockets :
     []((/\ i \in DOMAIN sockets
         /\ sockets[i].announced # <<>>
         /\ clients[sockets[i].client].readyState = "closed")
          => <>(/\ i \in DOMAIN sockets
                /\ "disconnect" \in Emitted(i)
                /\ ~sockets[i].connected))

\* Socket i was approved, the transport of its Client has closed and the
\* Client is detached, and the socket is connected and has not emitted
\* disconnect.
Stranded(i) ==
  /\ i \in DOMAIN sockets
  /\ sockets[i].announced # <<>>
  /\ clients[sockets[i].client].readyState = "closed"
  /\ ~clients[sockets[i].client].attached
  /\ sockets[i].connected
  /\ "disconnect" \notin Emitted(i)

\* A stranded socket stays stranded unless the application itself calls
\* disconnect on it: the close sequence with the reason of Socket.disconnect
\* is the only way out.
C37_StrandedForever ==
  [][\A i \in DOMAIN sockets :
       (Stranded(i) /\ ~Stranded(i)') =>
          sockets' = SocketDisconnect(Cur, i, FALSE).sockets
          \/ sockets' = SocketDisconnect(Cur, i, TRUE).sockets]_vars

\* No socket is ever stranded.
C37_NoneStranded == \A i \in DOMAIN sockets : ~Stranded(i)

\* ------------------------------------------------------------------ SpecQuery
\* Connections whose peers send CONNECT /chat?token=.. before and after
\* the middleware of the default namespace has let their default socket in.
\* A packet is decoded when the nextTick queue has been drained.
QueryKey == "token"

NextQuery ==
  \/ \E c \in ClientIds : InOrder(c) /\ OnConnection(c)
  \/ \E c \in ClientIds : ticks = <<>> /\ OnConnectWith(c, "/chat", QueryKey)
  \/ Tick
  \/ \E c \in ClientIds : OnTransportClose(c)
  \/ CallOf("/chat")
  \/ CallUse("/")
  \/ \E i \in DOMAIN sockets, err \in Errors : MiddlewareNext(i, err)
  \/ Return

SpecQuery == Init /\ [][NextQuery]_vars

\* C38: a socket created by the replay of a buffered CONNECT has the
\* per-socket query it would have got had the CONNECT not been buffered:
\* every socket of /chat, whose CONNECTs all carry the same query string,
\* has the query that Namespace.add gives a socket for that packet.
C38_Claim ==
  \A i \in DOMAIN sockets :
     sockets[i].nsp = "/chat" =>
        LET st == NamespaceAdd(Cur, "/chat", sockets[i].client, PacketQuery(QueryKey))
        IN sockets[i].query = st.sockets[Len(st.sockets)].query

\* A socket of /chat whose CONNECT was not buffered has the key of its
\* packet's query string.
C38_Unbuffered ==
  ~(\E i \in DOMAIN sockets :
      /\ sockets[i].nsp = "/chat"
      /\ sockets[i].phase = "approved"
      /\ sockets[i].query = {QueryKey} \cup RequestQuery)

\* ------------------------------------------------------------------ SpecLeak
\* One connection with a socket in a child of a parent namespace; the
\* application stages rooms and flags on the parent and emits there, and
\* emits on the child itself with nothing staged on the child.
NextLeak ==
  \/ OnConnection("c1")
  \/ OnDynConnect("c1", "/dyn")
  \/ \E k \in DOMAIN server.checks : MatcherAnswer(k, TRUE)
  \/ Len(server.parentNsps) = 0 /\ CallOfMatcher
  \/ Tick
  \/ \E rs \in SUBSET UserRooms : CallParentTo(1, rs)
  \/ \E rs \in SUBSET UserRooms, fs \in SUBSET NamespaceFlags,
        ev \in NamespaceEvents : CallParentEmit(1, rs, fs, ev, FALSE)
  \/ CallNamespaceEmit("/dyn", {}, {}, "x", FALSE)
  \/ Return

SpecLeak == Init /\ [][NextLeak]_vars

\* C39: an emit made on a child itself, with no rooms and no flags staged
\* on the child, is a broadcast without rooms and flags: every socket of the
\* child is written one frame, whatever was staged or emitted on the parent
\* before.
C39_Claim ==
  [][(last'.op = "Namespace.emit" /\ last'.outcome = "broadcast") =>
       LET n == last'.nsp
           a == adapters'[n][nsps'[n].adapter]
           frames(sid) == {f \in DOMAIN wire' :
                             /\ wire'[f].type = "EVENT" /\ wire'[f].nsp = n
                             /\ SocketIdOf(n, wire'[f].to) = sid}
       IN /\ last'.rooms = {} /\ last'.flags = {}
          /\ \A f \in DOMAIN wire' :
                wire'[f].nsp = n /\ SocketIdOf(n, wire'[f].to) \in DOMAIN a.sids
          /\ \A sid \in DOMAIN a.sids : Cardinality(frames(sid)) = 1]_vars

\* The child's emit takes rooms staged on the parent.
C39_RoomsLeak ==
  [][(last'.op = "Namespace.emit" /\ last'.outcome = "broadcast") =>
       last'.rooms = {}]_vars

\* The child's emit takes flags staged on the parent.
C39_FlagsLeak ==
  [][(last'.op = "Namespace.emit" /\ last'.outcome = "broadcast") =>
       last'.flags = {}]_vars

====
